----------------------------- MODULE Documents -----------------------------
(***************************************************************************)
(* Documents of the web application: upload and indexing (documents.ts,    *)
(* documents/finalize), who sees one (documentVisibleTo), sharing it in a  *)
(* channel (messages.ts), links to its bytes (blob-signing.ts), and what   *)
(* an agent reads or attaches when it answers in a channel (tools.ts,      *)
(* channel-agent.ts).                                                      *)
(*                                                                         *)
(* Seats are only ever added.  A request that reads is one step: its       *)
(* authorisation and its answer.  Contents and file types are left out.    *)
(***************************************************************************)
EXTENDS Naturals, FiniteSets

CONSTANTS People, Outside,     \* members, and those of them who are Partners
          Docs, Legacy,        \* ids of documents, and those of the old public store
          Chans, Workspace,    \* channels; where a document of none belongs
          FirstSeats,          \* channel -> who sits in it
          TTL,                 \* how long a signed link lives
          MaxTime, MaxActs     \* bounds on time, and on what people do

ASSUME DocumentsAssumption ==
    FirstSeats \in [Chans -> SUBSET People] /\ TTL \in Nat

VARIABLES
    now,
    standing,   \* person -> "internal", "external" or "gone"
    seating,    \* channel -> people
    docs,       \* document -> [home, blob, index]
    shares,     \* <<document, channel>> of message attachments
    sharing,    \* a message with an attachment, on its way: [by, doc, chan]
    urls,       \* signed links: [doc, who, until]
    lostAt,     \* person -> when their standing last changed
    reply,      \* an agent's answer in the making
    leaked,     \* a read by one who might not
    acts

docVars == <<now, standing, seating, docs, shares, sharing, urls, lostAt, reply, leaked, acts>>

NoReply == [pc |-> "idle"]

DocInit ==
    /\ now = 0 /\ acts = 0 /\ leaked = FALSE
    /\ standing = [p \in People |-> IF p \in Outside THEN "external" ELSE "internal"]
    /\ seating = FirstSeats
    /\ docs = [d \in Legacy |-> [home |-> Workspace, blob |-> "legacy", index |-> "none"]]
    /\ shares = {} /\ sharing = {} /\ urls = {}
    /\ lostAt = [p \in People |-> 0]
    /\ reply = NoReply

Act == acts < MaxActs /\ acts' = acts + 1

-----------------------------------------------------------------------------
(* Who sees a document. *)

(* Seated where it was uploaded or shared; or internal, when it belongs to *)
(* the workspace.                                                          *)
documentVisibleTo(d, p, internal) ==
    \/ internal /\ docs[d].home = Workspace
    \/ docs[d].home # Workspace /\ p \in seating[docs[d].home]
    \/ \E c \in Chans : <<d, c>> \in shares /\ p \in seating[c]

documentVisibleToAll(d, viewers) ==
    \A v \in viewers : documentVisibleTo(d, v.sub, v.internal)

isInternal(p) == standing[p] = "internal"

getVisibleDocument(d, p) == standing[p] # "gone" /\ documentVisibleTo(d, p, isInternal(p))

-----------------------------------------------------------------------------
(* Upload. *)

(* The uploader sits in the channel. *)
badDocScope(p, home) == home # Workspace /\ p \notin seating[home]

(* The row must succeed; text, chunks and vectors are best effort, in      *)
(* batches: indexed with vectors, without, in part, or not at all.         *)
ingestDocument(d, home, blob) ==
    \E index \in {"none", "plain", "embedded"} :
        docs' = [x \in DOMAIN docs \union {d} |->
                    IF x = d THEN [home |-> home, blob |-> blob, index |-> index] ELSE docs[x]]

(* documents/route.ts: the server stores the file, or keeps its text only. *)
Upload(p, d, home) ==
    /\ Act /\ d \notin DOMAIN docs /\ isInternal(p) /\ ~badDocScope(p, home)
    /\ \E blob \in {"none", "private"} : ingestDocument(d, home, blob)
    /\ UNCHANGED <<now, standing, seating, shares, sharing, urls, lostAt, reply, leaked>>

(* uploadAttachment: the browser stores it under the workspace's prefix    *)
(* and has it registered; when that fails nothing refers to it.            *)
finalize(p, d, home) ==
    /\ Act /\ d \notin DOMAIN docs /\ isInternal(p) /\ ~badDocScope(p, home)
    /\ ingestDocument(d, home, "private")
    /\ UNCHANGED <<now, standing, seating, shares, sharing, urls, lostAt, reply, leaked>>

-----------------------------------------------------------------------------
(* Sharing: POST messages lets through what the author sees, and links it  *)
(* once the message is in.                                                 *)
Share(p, d, c) ==
    /\ Act /\ p \in seating[c] /\ getVisibleDocument(d, p)
    /\ sharing' = sharing \union {[by |-> p, doc |-> d, chan |-> c]}
    /\ UNCHANGED <<now, standing, seating, docs, shares, urls, lostAt, reply, leaked>>

linkMessageAttachments(s) ==
    /\ sharing' = sharing \ {s}
    /\ shares' = shares \union {<<s.doc, s.chan>>}
    /\ UNCHANGED <<now, standing, seating, docs, urls, lostAt, reply, leaked, acts>>

-----------------------------------------------------------------------------
(* Download. *)

(* Mutant: a day, whatever the clamp says. *)
signedUrlTtlLong == TTL + MaxTime

(* 120 s unless configured, and never beyond 600. *)
signedUrlTtlSeconds == TTL

(* A private object: a link that ends.  A legacy one is streamed.          *)
Download(p, d) ==
    /\ getVisibleDocument(d, p) /\ docs[d].blob # "none" /\ Act
    /\ urls' = IF docs[d].blob = "legacy" THEN urls
                ELSE urls \union {[doc |-> d, who |-> p, until |-> now + signedUrlTtlSeconds]}
    /\ UNCHANGED <<now, standing, seating, docs, shares, sharing, lostAt, reply, leaked>>

(* The store honours a link until it ends, whoever its holder is by then.  *)
Fetch(k) ==
    /\ now <= k.until
    /\ leaked' = (leaked \/ (~getVisibleDocument(k.doc, k.who) /\ now > lostAt[k.who] + TTL))
    /\ UNCHANGED <<now, standing, seating, docs, shares, sharing, urls, lostAt, reply, acts>>

-----------------------------------------------------------------------------
(* An agent answers in a channel. *)

channelAudience(c) == {[sub |-> p, internal |-> isInternal(p)] : p \in seating[c]}

(* With an external reader, or for one, no document tool is offered.       *)
agentReplyScope(c, invoker) ==
    IF \E v \in channelAudience(c) : ~v.internal THEN "external" ELSE invoker

Mention(p, c) ==
    /\ reply.pc = "idle" /\ p \in seating[c] /\ standing[p] # "gone" /\ Act
    /\ reply' = [pc |-> "run", by |-> p, chan |-> c, invoker |-> standing[p],
                 scope |-> agentReplyScope(c, standing[p]), audience |-> channelAudience(c),
                 cited |-> {}, attached |-> {}, raced |-> FALSE]
    /\ UNCHANGED <<now, standing, seating, docs, shares, sharing, urls, lostAt, leaked>>

Viewer == [sub |-> reply.by, internal |-> reply.scope = "internal"]

(* The nearest chunks that have vectors; those without count only when     *)
(* none has.                                                               *)
retrieveChunks(viewers) ==
    LET seen == {d \in DOMAIN docs : docs[d].index # "none" /\ documentVisibleToAll(d, viewers)}
        near == {d \in seen : docs[d].index = "embedded"}
    IN  IF near # {} THEN near ELSE seen

documentsRead ==
    /\ reply.pc = "run" /\ reply.scope = "internal"
    /\ \E d \in retrieveChunks(reply.audience \union {Viewer}) :
         reply' = [reply EXCEPT !.cited = @ \union {d}]
    /\ UNCHANGED <<now, standing, seating, docs, shares, sharing, urls, lostAt, leaked, acts>>

(* Mutant: it is enough that the invoker sees it. *)
AttachableToInvoker(d) == documentVisibleToAll(d, {Viewer})

(* The invoker and everyone who will read the answer sees it already.      *)
Attachable(d) == documentVisibleToAll(d, reply.audience \union {Viewer})

artifactAttach(d) ==
    /\ reply.pc = "run" /\ reply.scope = "internal" /\ Attachable(d)
    /\ reply' = [reply EXCEPT !.attached = @ \union {d}]
    /\ UNCHANGED <<now, standing, seating, docs, shares, sharing, urls, lostAt, leaked, acts>>

replyScopeStillValid ==
    /\ agentReplyScope(reply.chan, reply.invoker) = reply.scope
    /\ \A v \in channelAudience(reply.chan) :
         \E was \in reply.audience : was.sub = v.sub /\ (was.internal \/ ~v.internal)

ReplyDone ==
    /\ reply.pc = "run"
    /\ reply' = IF replyScopeStillValid THEN [reply EXCEPT !.pc = "post"] ELSE NoReply
    /\ UNCHANGED <<now, standing, seating, docs, shares, sharing, urls, lostAt, leaked, acts>>

(* Posted and linked: everyone seated who has not left reads it.           *)
ReplyPosted ==
    /\ reply.pc = "post"
    /\ leaked' = (leaked \/ (~reply.raced /\ \E p \in seating[reply.chan], d \in reply.cited \union reply.attached :
                                standing[p] # "gone" /\ ~getVisibleDocument(d, p)))
    /\ shares' = shares \union (reply.attached \X {reply.chan})
    /\ reply' = NoReply
    /\ UNCHANGED <<now, standing, seating, docs, sharing, urls, lostAt, acts>>

-----------------------------------------------------------------------------
(* Meanwhile. *)

Raced == reply' = IF reply.pc = "post" THEN [reply EXCEPT !.raced = TRUE] ELSE reply

Seat(p, c) ==
    /\ Act /\ p \notin seating[c] /\ standing[p] # "gone"
    /\ seating' = [seating EXCEPT ![c] = @ \union {p}]
    /\ Raced
    /\ UNCHANGED <<now, standing, docs, shares, sharing, urls, lostAt, leaked>>

Restand(p, s) ==
    /\ Act /\ standing[p] # s
    /\ standing' = [standing EXCEPT ![p] = s]
    /\ lostAt' = [lostAt EXCEPT ![p] = now]
    /\ Raced
    /\ UNCHANGED <<now, seating, docs, shares, sharing, urls, leaked>>

Pass ==
    /\ now < MaxTime
    /\ now' = now + 1
    /\ UNCHANGED <<standing, seating, docs, shares, sharing, urls, lostAt, reply, leaked, acts>>

DocNext ==
    \/ Pass \/ documentsRead \/ ReplyDone \/ ReplyPosted
    \/ \E s \in sharing : linkMessageAttachments(s)
    \/ \E k \in urls : Fetch(k)
    \/ \E d \in DOMAIN docs : artifactAttach(d)
    \/ \E p \in People :
         \/ \E d \in Docs, home \in Chans \union {Workspace} : Upload(p, d, home) \/ finalize(p, d, home)
         \/ \E d \in DOMAIN docs : Download(p, d) \/ (\E c \in Chans : Share(p, d, c))
         \/ \E c \in Chans : Mention(p, c) \/ Seat(p, c)
         \/ \E s \in {"internal", "external", "gone"} : Restand(p, s)

DocSpec == DocInit /\ [][DocNext]_docVars

-----------------------------------------------------------------------------
(* A document's bytes reach only one who may see it, or could no longer    *)
(* ago than a link lives; and what an agent cites or attaches in a channel *)
(* every reader there could see before, though seats and standing change   *)
(* while it works; unless they change between its last check and the post. *)
DocumentsConfined == ~leaked

=============================================================================
