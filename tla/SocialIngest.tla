------------------------------ MODULE SocialIngest ------------------------------
(***************************************************************************)
(* Social mentions: runSocialIngestPass of packages/db/src/social/         *)
(* ingest.ts with classifySpam of packages/core/src/social, and the route  *)
(* that edits the sources under it (apps/web/app/api/social/sources).      *)
(*                                                                         *)
(* A pass reads the sources once, and goes through the enabled ones: fetch *)
(* the posts since the last sync, chain by chain; per post look back for   *)
(* copies and other posts of the author; upsert one row per mention; at    *)
(* the end move lastSyncAt to the present.  Nothing that runs beside it    *)
(* adds mentions, so the two look-backs of a post are one step.            *)
(*                                                                         *)
(* A post is [id, sources, chain, ts, author, hash, length, tokens]: the   *)
(* sources whose reader returns it, the hash of its normalized text and    *)
(* the tokens its text mentions.                                           *)
(***************************************************************************)
EXTENDS Integers, FiniteSets, FiniteSetsExt

CONSTANTS
    NoAuthor,          \* authorHash null
    SocialWorlds,      \* [sources, present, posts]: a source is [chains, reader]
    SpamConfig,        \* settings.connectors.social.spam
    LastSocialTime,    \* bound: the clock
    MaxSocialFaults,   \* bound: statements and fetches that throw, deaths of the pass
    MaxSourceEdits     \* bound: calls of the route

ASSUME SocialAssumption ==
    /\ LastSocialTime \in Nat /\ MaxSocialFaults \in Nat /\ MaxSourceEdits \in Nat
    /\ \A world \in SocialWorlds :
           world.present \subseteq DOMAIN world.sources /\ \A p \in world.posts : p.ts \in Nat
    /\ SpamConfig.window \in Nat /\ SpamConfig.copypastaAuthorMin \in Int
    /\ SpamConfig.weights \in [{"copypasta", "repeat_author", "low_content"} -> Int]

VARIABLES
    socialWorld,
    socialTime,
    sourceRows,        \* SocialSource: id -> [enabled, lastSync, status, failCount]
    unusedIds,         \* ids the database has not given to a source yet
    mentions,          \* SocialMention: set of rows, unique in source, post and token
    socialPass,        \* what the pass holds in memory
    missed,            \* history: <<source, post>> a sync left behind
    socialFaults, sourceEdits

socialBounds == <<unusedIds, socialFaults, sourceEdits>>
socialVars ==
    <<socialWorld, socialTime, sourceRows, mentions, socialPass, missed, socialBounds>>

\* lastSyncAt null: every post is newer.
Never == -1

NewSource == [enabled |-> TRUE, lastSync |-> Never, status |-> "idle", failCount |-> 0]

NoTurn == [source |-> "none", since |-> Never, chains |-> {}, late |-> {},
           posts |-> {}, failed |-> {}, post |-> "none", left |-> {}, score |-> 0]

IdleSocialPass == [at |-> "idle", todo |-> <<>>, turn |-> NoTurn]

SocialInit ==
    /\ socialWorld \in SocialWorlds
    /\ socialTime = 0
    /\ sourceRows = [s \in socialWorld.present |-> NewSource]
    /\ unusedIds = DOMAIN socialWorld.sources \ socialWorld.present
    /\ mentions = {}
    /\ socialPass = IdleSocialPass
    /\ missed = {}
    /\ socialFaults = 0 /\ sourceEdits = 0

SocialTick ==
    /\ socialTime < LastSocialTime
    /\ socialTime' = socialTime + 1
    /\ UNCHANGED <<socialWorld, sourceRows, mentions, socialPass, missed, socialBounds>>

SocialFault == socialFaults < MaxSocialFaults /\ socialFaults' = socialFaults + 1

-----------------------------------------------------------------------------
\* extractMentions: nothing is recognised outside Solana.
ExtractMentions(post) == IF post.chain = "SOLANA" THEN post.tokens ELSE {}

\* classifySpam: the greatest weight of the rules that apply.
ClassifySpam(authors, authorPosts, length) ==
    LET weights == SpamConfig.weights
        Applies(rule) ==
            CASE rule = "copypasta" -> authors >= SpamConfig.copypastaAuthorMin
              [] rule = "repeat_author" -> authorPosts >= SpamConfig.repeatAuthorMin
              [] rule = "low_content" -> length < SpamConfig.lowContentMinChars
    IN  Max({0} \cup {weights[rule] : rule \in {r \in DOMAIN weights : Applies(r)}})

Recent(post) == {m \in mentions : m.ts >= post.ts - SpamConfig.window}

\* The look-back from a post: also rows later than the post count.
SpamScore(post) ==
    LET authors == {m.author : m \in {n \in Recent(post) : n.hash = post.hash}}
                     \cup {post.author}
        own == IF post.author = NoAuthor THEN {}
               ELSE {m.post : m \in {n \in Recent(post) : n.author = post.author}}
                      \cup {post.id}
    IN  ClassifySpam(Cardinality(authors \ {NoAuthor}), Cardinality(own), post.length)

-----------------------------------------------------------------------------
(* runSocialIngestPass.                                                    *)

StartSocialPass ==
    /\ socialPass.at = "idle"
    /\ LET enabled == {s \in DOMAIN sourceRows : sourceRows[s].enabled} IN
       /\ enabled # {}
       /\ socialPass' = [IdleSocialPass EXCEPT !.at = "source",
              !.todo = [s \in enabled |-> sourceRows[s].lastSync]]
    /\ UNCHANGED <<socialWorld, socialTime, sourceRows, mentions, missed, socialBounds>>

Without(f, x) == [y \in DOMAIN f \ {x} |-> f[y]]

\* The next source of the snapshot; one without a reader is passed over.
TakeSource(s) ==
    /\ socialPass.at = "source" /\ s \in DOMAIN socialPass.todo
    /\ LET todo == Without(socialPass.todo, s) IN
       socialPass' =
           IF socialWorld.sources[s].reader
           THEN [at |-> "fetch", todo |-> todo,
                 turn |-> [NoTurn EXCEPT !.source = s, !.since = socialPass.todo[s],
                                         !.chains = socialWorld.sources[s].chains]]
           ELSE [socialPass EXCEPT !.todo = todo]
    /\ UNCHANGED <<socialWorld, socialTime, sourceRows, mentions, missed, socialBounds>>

turn == socialPass.turn

PostsOffered(s, c) == {p \in socialWorld.posts : s \in p.sources /\ p.chain = c}

FetchPosts(c) ==
    /\ socialPass.at = "fetch" /\ c \in turn.chains
    /\ LET offered == PostsOffered(turn.source, c)
           posts == {p \in offered : turn.since < p.ts /\ p.ts <= socialTime}
       IN  socialPass' = [socialPass EXCEPT
               !.at = IF posts = {} THEN "fetch" ELSE "post",
               !.turn.chains = @ \ {c}, !.turn.posts = posts,
               !.turn.late = @ \cup {p \in offered : p.ts > socialTime}]
    /\ UNCHANGED <<socialWorld, socialTime, sourceRows, mentions, missed, socialBounds>>

\* The pass once post p is dealt with.
PostDone(p, failed) ==
    LET posts == turn.posts \ {p} IN
    [socialPass EXCEPT !.at = IF posts = {} THEN "fetch" ELSE "post",
        !.turn = [turn EXCEPT !.posts = posts, !.post = "none", !.left = {}, !.score = 0,
                              !.failed = @ \cup failed]]

\* ingestPost up to the first upsert.
ClassifyPost(p) ==
    /\ socialPass.at = "post" /\ p \in turn.posts
    /\ socialPass' =
           IF ExtractMentions(p) = {} THEN PostDone(p, {})
           ELSE [socialPass EXCEPT !.at = "mention", !.turn.post = p,
                    !.turn.left = ExtractMentions(p), !.turn.score = SpamScore(p)]
    /\ UNCHANGED <<socialWorld, socialTime, sourceRows, mentions, missed, socialBounds>>

SameMention(m, s, p, token) == m.source = s /\ m.post = p.id /\ m.token = token

MentionRow(s, p, token, score) ==
    [source |-> s, post |-> p.id, token |-> token, ts |-> p.ts, author |-> p.author,
     hash |-> p.hash, score |-> score]

\* Upsert of one mention; without its source row it throws, and the post is
\* given up with what is stored of it.
UpsertMention(token) ==
    /\ socialPass.at = "mention" /\ token \in turn.left
    /\ IF turn.source \in DOMAIN sourceRows
       THEN /\ mentions' = {m \in mentions : ~SameMention(m, turn.source, turn.post, token)}
                   \cup {MentionRow(turn.source, turn.post, token, turn.score)}
            /\ socialPass' = IF turn.left = {token} THEN PostDone(turn.post, {})
                             ELSE [socialPass EXCEPT !.turn.left = @ \ {token}]
       ELSE /\ socialPass' = PostDone(turn.post, {turn.post})
            /\ UNCHANGED mentions
    /\ UNCHANGED <<socialWorld, socialTime, sourceRows, missed, socialBounds>>

\* A statement of ingestPost throws: only this post is skipped.
PostThrows ==
    /\ socialPass.at = "mention" /\ SocialFault
    /\ socialPass' = PostDone(turn.post, {turn.post})
    /\ UNCHANGED <<socialWorld, socialTime, sourceRows, mentions, missed, unusedIds,
                   sourceEdits>>

SourceDone == [socialPass EXCEPT !.at = "source", !.turn = NoTurn]

\* Every chain is read: lastSyncAt is now.  A row that is gone throws.
FinishSource ==
    /\ socialPass.at = "fetch" /\ turn.chains = {}
    /\ IF turn.source \in DOMAIN sourceRows
       THEN /\ sourceRows' = [sourceRows EXCEPT ![turn.source] =
                   [@ EXCEPT !.lastSync = socialTime, !.status = "ok", !.failCount = 0]]
            /\ socialPass' = SourceDone
            /\ missed' = missed \cup
                   {<<turn.source, p.id>> : p \in turn.failed
                       \cup {q \in turn.late : q.ts <= socialTime}}
       ELSE /\ socialPass' = [socialPass EXCEPT !.at = "error"]
            /\ UNCHANGED <<sourceRows, missed>>
    /\ UNCHANGED <<socialWorld, socialTime, mentions, socialBounds>>

\* The reader, or the update of the source, throws.
SourceThrows ==
    /\ socialPass.at = "fetch" /\ SocialFault
    /\ socialPass' = [socialPass EXCEPT !.at = "error"]
    /\ UNCHANGED <<socialWorld, socialTime, sourceRows, mentions, missed, unusedIds,
                   sourceEdits>>

\* Faulty variant: a failed sync moves lastSyncAt as well.
SourceFailedAt(row) ==
    [row EXCEPT !.status = "error", !.failCount = @ + 1, !.lastSync = socialTime]

SourceFailed(row) == [row EXCEPT !.status = "error", !.failCount = @ + 1]

\* The update in the catch is not guarded: without the row it ends the pass.
MarkSourceError ==
    /\ socialPass.at = "error"
    /\ IF turn.source \in DOMAIN sourceRows
       THEN /\ sourceRows' = [sourceRows EXCEPT ![turn.source] = SourceFailed(@)]
            /\ socialPass' = SourceDone
       ELSE socialPass' = IdleSocialPass /\ UNCHANGED sourceRows
    /\ UNCHANGED <<socialWorld, socialTime, mentions, missed, socialBounds>>

EndSocialPass ==
    /\ socialPass.at = "source" /\ DOMAIN socialPass.todo = {}
    /\ socialPass' = IdleSocialPass
    /\ UNCHANGED <<socialWorld, socialTime, sourceRows, mentions, missed, socialBounds>>

\* The process dies, or the update in the catch throws.
SocialPassDies ==
    /\ socialPass.at # "idle" /\ SocialFault
    /\ socialPass' = IdleSocialPass
    /\ UNCHANGED <<socialWorld, socialTime, sourceRows, mentions, missed, unusedIds,
                   sourceEdits>>

-----------------------------------------------------------------------------
(* The route.                                                              *)

SourceEdit ==
    /\ sourceEdits < MaxSourceEdits /\ sourceEdits' = sourceEdits + 1
    /\ UNCHANGED <<socialWorld, socialTime, socialPass, missed, socialFaults>>

\* A source created again is another row: the database gives it a new id.
PostSource(s) ==
    /\ s \in unusedIds /\ unusedIds' = unusedIds \ {s}
    /\ sourceRows' = [t \in DOMAIN sourceRows \cup {s} |->
           IF t = s THEN NewSource ELSE sourceRows[t]]
    /\ SourceEdit /\ UNCHANGED mentions

\* The switch of the page.
PatchSource(s) ==
    /\ s \in DOMAIN sourceRows
    /\ sourceRows' = [sourceRows EXCEPT ![s].enabled = ~@]
    /\ SourceEdit /\ UNCHANGED <<mentions, unusedIds>>

\* The mentions of the source go with it.
DeleteSource(s) ==
    /\ s \in DOMAIN sourceRows
    /\ sourceRows' = Without(sourceRows, s)
    /\ mentions' = {m \in mentions : m.source # s}
    /\ SourceEdit /\ UNCHANGED unusedIds

SocialNext ==
    \/ SocialTick \/ StartSocialPass \/ PostThrows \/ FinishSource \/ SourceThrows
    \/ MarkSourceError \/ EndSocialPass \/ SocialPassDies
    \/ \E s \in DOMAIN socialWorld.sources :
        TakeSource(s) \/ PostSource(s) \/ PatchSource(s) \/ DeleteSource(s)
    \/ \E c \in turn.chains : FetchPosts(c)
    \/ \E p \in turn.posts : ClassifyPost(p)
    \/ \E token \in turn.left : UpsertMention(token)

SocialSpec == SocialInit /\ [][SocialNext]_socialVars

-----------------------------------------------------------------------------
\* Everything a source was offered up to its last sync is stored, but for
\* posts whose ingest threw and posts that came between the fetch of their
\* chain and the end of the sync.
AllHeard ==
    \A s \in DOMAIN sourceRows :
        \A p \in UNION {PostsOffered(s, c) : c \in socialWorld.sources[s].chains} :
            p.ts <= sourceRows[s].lastSync /\ <<s, p.id>> \notin missed =>
                \A token \in ExtractMentions(p) :
                    \E m \in mentions : SameMention(m, s, p, token)

\* When enough authors post one text within the window, not all of their
\* mentions look clean, whatever the order in which they were read.
CopiesShow ==
    \A first \in mentions :
        LET copies == {m \in mentions : /\ m.hash = first.hash
                                        /\ first.ts <= m.ts
                                        /\ m.ts <= first.ts + SpamConfig.window}
            authors == {m.author : m \in copies} \ {NoAuthor}
        IN  Cardinality(authors) >= SpamConfig.copypastaAuthorMin =>
                \E m \in copies : m.score >= SpamConfig.weights.copypasta

\* No post is lost between two syncs without a cause that is known, and a
\* wave of copies does not pass unnoticed.
MentionsAccounted == AllHeard /\ CopiesShow
=============================================================================
