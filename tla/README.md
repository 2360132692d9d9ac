# Formal model of citrate-comms

TLA+ modules, TLC configurations and TLAPS proofs for the server-blind relay of
citrate-comms and the parts that depend on it. The source is the reference: every
definition is translated from the lines named for it in `PROJECT.json` ("map").

## 1. The system

citrate-comms is an end-to-end encrypted messenger with a company workspace around it.
Two programs share the repository: a Rust workspace (`crates/`), which is the messenger,
and a Next.js application (`webapp/`), which is the workspace.

| Part | State it keeps | Operations | Talks to |
|---|---|---|---|
| delivery service, `crates/comms-relay/src/lib.rs` | sessions, groups (roster, epoch, `next_seq`, accepted Commits, log, grant generations), mailboxes, KeyPackage queues, claims, invites, referrals, audit chain | authenticate, register_group, submit, onboard, offboard, fetch, publish/revoke/redeem invite, publish/take KeyPackage, claims | store, rbac, identity |
| relay store, `comms-core/src/{store,audit}.rs` and the `persist_*` helpers | column families on disk: envelopes, group snapshots, KeyPackages, invites, referrals, audit records | one put per record, scan at `open()` | RocksDB |
| WebSocket transport, `comms-relay/src/ws.rs`, `admin.rs` | connections, registry wallet -> outgoing channel, pause flag | dispatch of every client frame, deliver_pending, notify_recipients, teardown | delivery service, sockets |
| identity, `comms-core/src/identity.rs` | live nonces with their issue time | fresh, consume, verify_siwe_login, verify_binding_attestation | delivery service |
| role grants, `comms-core/src/rbac.rs` | none | sign, verify_grant_for_group, can | delivery service |
| MLS wrapper, `comms-core/src/mls.rs` | one MLS group per channel | create, add, remove, process, export | OpenMLS |
| domain store, `comms-core/src/domain/` | last-writer-wins entities with Lamport stamps and tombstones | apply, merge, fold of a channel's operations | member daemon, client |
| wire client, `comms-wire` | one socket, queues of pushed envelopes and notifications | one request at a time, answers without correlation ids | relay |
| session, `comms-session` | MLS client, roster, group cursor | connect, create, invite, send, pump | wire client, MLS |
| member daemon, `comms-member-daemon` | channels, inbox (4096), sealed snapshot on disk | IPC commands, background pump, redeem, approve | session, relay |
| agent bridge, `comms-agent-bridge` | agent registry, capability scope, sponsor window | socket commands, read/post in scope | session, relay |
| desktop client, `comms-client` | UI state | screens over a session | session |
| release tool, `comms-release` | none | sign and verify manifests | files |
| web application: approvals and audit, `webapp/src/lib/{domain/approvals,audit/chain,ai/audit}.ts` | approval rows, transparency rows, one hash chain per workspace | enqueue and decide, execute, append, verify | tools, every part that is audited |
| web application: imports, `domain/import-*.ts`, `tables-repo.ts` | batches, sheets, rows with their status, mappings, jobs with a cursor | parse, classify, map, start, run a slice, review, flush | CRM, browser tick and cron tick |
| web application: CRM, `domain/crm*.ts`, `components/crm` | accounts, deals, contacts, notes, activity, fields, tags | create, upsert, update, delete, dedupe, record form | imports, approvals |
| web application: membership and sign-in, `domain/{invites,members,workspaces}.ts`, `tenant`, `rbac`, `proxy.ts`, `api/auth` | members, role assertions, invites; cookies and refresh tokens | invite, accept, change role, offboard; sign in, refresh, sign out | every handler |
| web application: channels, agents, personas, `domain/{channels,messages,channel-agent,agent-*,personas}.ts`, `ai/tools.ts` | messages with numbers, read cursors, threads, tool calls, personas, prompts, grants | post, poll, pin, witness, reply as agent, converse, resume, configure, delegate | approvals, documents, memory |
| web application: calendar and projects, `domain/{calendar,pm}.ts`, `components/{calendar,pm}` | events, attendees, reminder rows, tasks, RACI | create, edit, cancel, RSVP, remind, mirror a deadline; boards | cron, notifications |
| web application: notifications, `domain/notifications.ts`, `realtime` | notification rows, streams, the bell's count | notify, stream, poll, mark read | every part that pings |
| web application: documents, mail, memory, `domain/documents.ts`, `email`, `memory` | documents, chunks, shares, links; suppressions; memory nodes in two stores | upload, share, download, retrieve; send, unsubscribe; assert, recall | blob store, mail services, memory gateway |

### What is hard here

* The delivery service is one value behind one mutex, so methods do not interleave with
  each other; their *sequences* do, with retries after a lost answer, Commits racing for
  one epoch, members leaving and coming back, grants signed before a removal and used
  after it, invites published again.
* A method writes several column families one put at a time, after memory has changed:
  a crash or a failed put between two of them leaves disk and memory, or two column
  families, with different stories.
* Connections are tasks: authenticating, delivering and tearing down take the registry
  lock and the service lock one after the other, never together.
* Mailboxes, sessions, nonces and claims live in memory only.
* Clients merge their own Commits before the relay has accepted them, and pair answers
  with requests by order alone.
* The web application's handlers read, decide and write in separate statements, several
  of them from two processes at once (a browser tick and a cron tick), and any of them may
  be cut off between two statements.
* Its pages show what they expect before the server has answered, and answers come back out
  of order; what a request was authorised for may be gone by the time it writes.

`PROJECT.json` ("hazards") lists each at its line, with the properties that would catch it.

### What makes each part correct

* Delivery service: one gapless order per group with one Commit per epoch; an answer `Ok(seq)` names the
  envelope it answers; members receive what the order says, in that order; a role counts only while the
  membership it was granted in lasts; an invite admits one wallet.
* Relay store: what was acknowledged is there after a crash, what was removed stays removed, and the relay
  can be opened again.
* Identity and KeyPackages: nonces and KeyPackages are used once; none that was accepted is lost.
* Transport: an accepted envelope reaches a recipient whose connection stays registered and open; each
  connection gets its wallet's envelopes in order, and one that is torn down leaves no session, registry
  entry or slot behind.
* Domain store: members that have seen the same events hold the same entities.
* Wire client: a request takes the answer of that request; every request ends.
* Member daemon: members follow the relay's order of Commits; messages are shown once and in order, and not
  to wallets that were removed; ratchet generations are not reused.
* Approvals and audit chain: an action runs at most once and the records say what happened; the chain tells
  whether the table was changed.
* Imports: a row is imported once however slices are cut off, no row is passed over, the counters a person
  reads add up, and a sensitive column is never shown.
* CRM: nothing refers to a record that is gone; dedupe and upserts agree on what a double is.
* Membership and sign-in: an invite admits only while its issuer may issue it; offboarding leaves nothing; a
  session survives its id token's hour, overlapping refreshes included unless the authority revokes grants
  for them, and does not survive a sign-out.
* Channels, agents, documents: a page misses no message; an agent's reply is fit for everyone who can read
  it; a private turn leaves no trace; delegates stay within their grants; nobody reads a document outside
  its scope.
* Calendar, notifications, mail, memory: nobody is reminded twice, a deadline is on the calendar once, a
  ping shows in the end, who unsubscribed gets no bulk mail, a kept finding is kept.
* Screens: what a page shows at rest is what the server has, and a form saves what its user changed.

## 2. Plan

Done: the messenger (`Relay`, `OrderedLog`, `RelayStore`, `KeyDirectory`, `RelayWs`, `DomainStore`,
`WireClient`, `MemberDaemon`) and the web application (`Approvals`, `AuditChain`, `ImportParse`, `Imports`,
`Crm`, `Workspace`, `SignIn`, `Channels`, `Tools`, `Agents`, `Personas`, `Calendar`, `CalendarPage`,
`Notify`, `Boards`, `RecordForm`, `Documents`, `Mail`, `Memory`); proofs of every safety property the
passing runs check.

Next, in this order:

1. The session and the agent bridge over the same relay as `MemberDaemon`.
2. Research and table queries of the web application, as far as they keep state.

## 3. Modules

`X` models, `MCX` instantiates it for TLC, `XProofs` proves. Next to a mapped operator some modules define a
variant of it, marked "Mutant" in its comment: a plausible mistake in that code which the property named in
`PROJECT.json` ("mutants") must reject. No specification uses them.

**`OrderedLog`** is what the delivery service promises, without wallets or requests: per group a sequence
that grows at its end, and a sequence of decided Commits, one per epoch.

**`Relay`** (`comms-relay/src/lib.rs`, `comms-core/src/rbac.rs`). State: the fields of `DeliveryService` and
`GroupState` under their own names, the role assertions in circulation, and the histories `fetched`, `acks`,
`mints`. An envelope's recipients are a list, as on the wire; nothing removes a repeated name, and a mailbox
gets a copy for each (`Copies`). The service is a value behind one mutex, so every method is one action:
`Authenticate`, `EndSession`, `RegisterGroup`, `Submit`, `Fetch`, `Onboard`, `Offboard`, `PublishInvite`,
`RevokeInvite`, `RedeemInvite`; the answer to an identical Commit is `SubmitReplay` and `OffboardReplay`. A
refused call changes nothing and is not an action, but `OnboardRefused` is, since onboard adds to the roster
and undoes it. Time is `ExpireGrant` and `ExpireInvite`. `RefinesOrderedLog` maps it to `OrderedLog`.

**`RelayStore`** (`lib.rs`, `store.rs`, `audit.rs`). The same methods on one group with a store: a method
changes memory when it begins and then makes its puts one by one (`PutOk`, `PutFails`, and `Drop` for the
roster change in the middle of offboard). `Crash` may come between any two; `Open` is
`DeliveryService::open`, with the verification of the audit chain. A put is durable when it returns: RocksDB
writes its log before it answers, and a crash is one of the process.

**`KeyDirectory`** (`identity.rs`, `lib.rs`). Nonces with their age, login, publication and taking of
KeyPackages with the put as a step of its own, the claims inbox, restart.

**`RelayWs`** (`ws.rs`, `admin.rs`). One reading and one writing task per connection; a step lies between
two awaits or lock acquisitions. `Continue` is the next step of a dispatch or of the teardown.

**`DomainStore`** (`comms-core/src/domain`). Members emit upserts and deletions with Lamport stamps, fold
events in any order and any number of times, and take over snapshots.

**`WireClient`** (`comms-wire/src/client.rs`, `comms-member-daemon/src/relay.rs`). One socket, the three
channels the read task feeds, one request at a time, the health probe with its time-out. The relay's side is
how `ws.rs` answers.

**`MemberDaemon`** (`comms-member-daemon/src/lib.rs`, `persist.rs`, `mls.rs`). Daemons over one relay. An
MLS state is the sequence of Commits merged into it. Operations that call the relay more than once are
several steps (`AddMember`, `SubmitAdd`, `Onboard`, `PersistState`; `RedeemInvite`, `RedeemCommit`; the
joins), and `Restart` may come between any two of them.

**`Approvals`** (`webapp/src/lib/domain/approvals.ts`, `ai/audit.ts`). A request is a sequence of
autocommitted statements; the status update is a compare-and-swap, the others are not. `CutOff` is the end
of a serverless invocation.

**`AuditChain`** (`webapp/src/lib/audit/chain.ts`). `appendAudit` is a read of the head and an insert. A
keyed hash is its input together with the fact that the application has computed it: an edit can only use
hashes that were computed.

**`ImportParse`** (`import-parse.ts`, `import-map.ts`, `import-extract.ts`, `import-store.ts`,
`tables-repo.ts`) holds pure operators: a cell is the set of expressions its text matches and a value, a
sheet a matrix of cells. **`Imports`** extends it with the state: batch, rows and their marks, mapping,
jobs, review, CRM records. A worker is a cron tick, a browser tick or an approval; it takes one database
statement per step and `CutOff` may end it anywhere.

**`Crm`** (`crm.ts`, `crm-dedupe.ts`, `crm-notes.ts`, `crm-fields.ts`, `crm-tags.ts`). Nothing runs in a
transaction: an upsert, a write below a record, a deletion and the dedupe run each take one step per table
and interleave.

**`Workspace`** (`members.ts`, `invites.ts`, `workspaces.ts`, `matrix.ts`, `guard.ts`). A request is
authorised in one step and writes in later ones. Acceptance of an invite is a transaction, whose claim,
check and admission are steps that others see only when it commits.

**`SignIn`** (`auth/start`, `auth/callback`, `auth/logout`, `proxy.ts`, `session.ts`). A flight is a request
with the cookies of the moment it was sent; its answer sets cookies when it arrives. The authority is
external: it may rotate a refresh token when it is used (`Issue`), and when a spent one is presented it
refuses, and may revoke the whole grant (`ProxyReuses`), as panva's oidc-provider does, for which the flow
is written.

**`Channels`** (`channels.ts`, `messages.ts`, `ledger.ts`, `channel-agent.ts`, `ChannelView.tsx`). Answers
to a page are in flight and arrive in any order; an insert reads `MAX(seq)` and commits in two steps; an
agent's reply is the check of its audience, the run, and the second check with the insert.

**`Tools`** (`tools.ts`, `personas.ts`) says what each tool needs, which are withheld and what a call leaves
behind. **`Agents`** (`AgentChat.tsx`, `chat/route.ts`, `agent-threads.ts`, `mcp/route.ts`) is windows,
turns and threads; a window's conversation, its `convIdRef` and its incognito switch are separate state.
**`Personas`** (`personas.ts`, `agent-config.ts`, `persona-scope.ts`) is rows with foreign keys, changed by
requests that were authorised before.

**`Screens`** puts `Boards` and `CalendarPage` side by side. **`Calendar`** (`calendar.ts`, `pm.ts`). A tick
reads the due rows once and marks and sends them one by one. A request that makes, moves or cancels an event
is a sequence of autocommitted statements: the event (`Rewritten`, `createEvent`, `cancelEvent`), the
re-read (`EventReread`), the deletion of its reminder rows (`RowsDeleted`, `RowsDropped`) and the insertion
of the new ones (`RowsInserted`). No unique index ties the rows of two requests together, so a row carries
its request as its id. Saves of a task sync its deadline by a read and a write, and an update schedules the
reminders twice, as the code does: once as re-read, once for the people given. An event and its attendees
are written in one step. **`CalendarPage`** (`CalendarView.tsx`) is the range in view, what is loaded, with
the version of the events the server read it from, and loads under way, served and answered in any order.
**`Boards`** (`PmScreen.tsx`, `CrmScreen.tsx`, `pm.ts`) and **`RecordForm`** (`RecordFile.tsx`) are copies
that pages keep of server state, and their requests. A route of a board writes the card and then the audit
log: an error may be answered to what was written (`"unaudited"`).

**`Notify`** (`notifications.ts`, `mentions.ts`, `notifications/stream`, `notify-events.ts`,
`notif-feed.ts`, `NotifBell.tsx`). A row is inserted, then emitted to streams of the same instance; other
streams learn of it at their next tick, and a bell without a stream polls.

**`Documents`** (`documents.ts`, `blob-signing.ts`, `finalize`, `tools.ts`) relates readers' seats and
standing to links, shares and agents' replies. **`Mail`** (`email/send.ts`, `suppression.ts`, `unsubscribe`)
and **`Memory`** (`memory/*.ts`) each put a local record beside an external service that may have acted
though its answer is lost. An assert that fails at the gateway goes to Neon; when Neon, too, gives an error,
with its row inserted or not, the claim on the approval is released, and the finding can be approved and
asserted again (`AfterNeonError`).

Modules that share no state are checked side by side, one part per behaviour: **`MCConnection`** takes
`WireClient` and `RelayWs`, **`MCWebapp`** what must eventually happen in the web application, with
`Channels`, **`MCCopies`** takes `DomainStore` and `Screens`, and **`MCWebappData`** the other twelve parts.
Such a module extends the parts that have theorems, so that a run checks the very property a theorem states,
and instantiates only those whose properties are about liveness or whose names it would repeat (`RelayWs` in
`MCConnection`, `Notify` in `MCWebapp`).

## 4. Runs

| Run | Module, configuration | Expected | Properties | What it shows |
|---|---|---|---|---|
| `relay` | `MCRelay`, `MCRelay.cfg` | pass | `TotalOrder`, `DeliveredAsOrdered`, `MembershipAccounted`, `RefinesOrderedLog` | Submits, replays, onboards, offboards, fetches, grants and invites of two wallets, in three regions: one total order that is acknowledged and delivered exactly and implements the abstract ordered log, authority that ends with membership, a roster that matches its paper trail, and invites that admit once. |
| `store` | `MCRelayStore`, `MCRelayStore.cfg` | pass | `PromisesDurable`, `Reopenable` | A crash between any two puts, any number of times, and one put that fails: what was acknowledged or removed survives, and without a failed put the audit chain opens, Commits stay replayable and a redeemed token stays redeemed. |
| `store_seq_reused` | `MCRelayStore`, `MCRelayStoreSeq.cfg` | violation | `SeqUnique` | A crash between persist_envelope and persist_group gives one group_seq to two envelopes of the log. |
| `directory` | `MCKeyDirectory`, `MCKeyDirectory.cfg` | pass | `SingleUse`, `AcceptedKept` | Two wallets log in, publish KeyPackages and are taken from, with crashes at any point and failed puts, and claims beyond the inbox's limit: nonces and packages are used once, none that was promised is lost, the first claim stays first. |
| `ws` | `MCRelayWs`, `MCRelayWs.cfg` | pass | `ConnectionsServed`, `TeardownClean` | Three connections of two wallets, one of which reconnects, with two envelopes and offboarding: each connection gets its own wallet's envelopes once and in order, and teardown leaves nothing behind. |
| `ws_mail_lost` | `MCRelayWs`, `MCRelayWsLost.cfg` | violation | `NothingLost` | deliver_pending drains a mailbox into the channel of a connection whose peer is gone: the envelopes are nowhere afterwards. |
| `connection` | `MCConnection`, `MCConnection.cfg` | pass | `AnswersMatch`, `AcceptedReaches`, `ConnectionEnds` | Both ends of a socket under fair scheduling. The client: requests, health probes and pushes in every interleaving on a socket that may close; until a probe has timed out every request takes its own answer, pushes arrive in order, every request returns. The relay, paused and resumed: a wallet's second connection replaces the first; an envelope accepted while its recipient is connected reaches it unless that connection breaks, the teardown of an older one removes its entry, or a delivery from an older copy of the registry drains the mailbox elsewhere; and a broken connection gives its slot back. |
| `copies` | `MCCopies`, `MCCopies.cfg` | pass | `Convergent`, `TombstoneStays`, `ScreensTrue` | Copies of records. Stores of two members and three events in every order, repeated, missed or taken over by snapshot: each is the last-writer-wins record of the events it has seen, two that have seen the same are equal, and a deleted entity stays deleted. Two pages of a board with three requests answered in any order, with errors before and after the write, and a calendar page whose loads cross: at rest a page shows what the server has, but for what overlapped or misled it. |
| `daemon` | `MCMemberDaemon`, `MCMemberDaemon.cfg` | pass | `ConversationSound`, `StaysInStep` | Daemons of three wallets over two groups, with invites, restarts inside and between operations and an inbox of two: messages are shown in order and never after removal, ratchet generations survive clean restarts, and no operation loses a Commit. |
| `webapp` | `MCWebapp`, `MCWebapp.cfg` | pass | `OneExecution`, `RecordsAgree`, `NothingSkipped`, `ReplyFitsAudience`, `RemindedOnce`, `ClaimEnds`, `NoticesArrive` | Under fair scheduling. Approvals: two requests decide two approvals with failed executions and a cut-off; no action runs twice, the records agree and no claim is left. A channel of two people and an agent: overlapping polls skip no message, and an answer fits its readers though seats and roles change while it is made. The bell: a ping reaches the badge over streams that close and polls that fail. Reminders: a tick of the cron between the statements of two requests that edit, with RSVPs; nobody is reminded twice of one start unless two requests rewrite an event's rows at once, and due rows are worked off. |
| `webapp_data` | `MCWebappData`, `MCWebappData.cfg` | pass | `NoDuplicates`, `ImportAccounted`, `SensitiveHidden`, `NoDangling`, `NoDoubles`, `MembershipSound`, `SessionSound`, `DeadlineMirrored`, `ChainHonest`, `OthersKept`, `TurnsAsTyped`, `DelegateConfined`, `DocumentsConfined`, `UnsubscribeHonoured`, `FindingsKept` | Twelve more parts of the web application that share no state, each with two requests, workers or people that overlap: imports, CRM, membership, sign-in, task deadlines, audit chain, record forms, agent conversations, persona delegation, documents, mail and memory. |
| `approvals_reject` | `MCWebapp`, `MCWebappReject.cfg` | violation | `RejectedNeverRan` | A rejection that read the approval as pending lands after a concurrent approval claimed and ran it: the log says rejected, the action was executed. |


## 5. Bounds

Every bound is a constant: limits of the code under the code's name (`MAX_RECIPIENTS`, `MAX_INVITES`,
`NONCE_TTL`, `MAX_KEYPACKAGES_PER_WALLET`, `MAX_CLAIMS_PER_TOKEN`, `MAX_CONNECTIONS`, `INBOX_CAP`,
`MAX_CHALLENGES_PER_CONN`), small enough to be reached, and bounds of the exploration, which start with
`Max`.

* `relay`: two wallets, one group, two ciphertexts, three envelopes. Two Commits race for an epoch, a third
  follows, and a replay answers after either; a wallet can be removed, admitted and removed again while a
  grant from before is in circulation; an invite can be published twice. Groups share no state but mailboxes
  and the audit chain. The recipients are nobody, one wallet, that wallet twice, or three names, which
  `MAX_RECIPIENTS` = 2 refuses, so that onboard is undone. The product of orderings, grants and invites is
  out of reach; the constraint `Regions` of `MCRelay` explores the three one at a time.
* `store`: three envelopes of one epoch without a failed put, or two of two epochs with one; any number of
  crashes (a crash leads back to a state of the same disk). A hole in a column family needs one envelope, a
  collision two, and a collision that is read back a third.
* `directory`: two packages per wallet and a queue of two, with two failed puts; claims with a clock that
  passes `NONCE_TTL`.
* `ws`: two connections of one wallet and one of another, two envelopes: reconnection during delivery,
  during teardown and between its steps.
* `connection`: at the relay's end one wallet on two connections, each of which may replace the other, drain
  its mailbox or tear it down, two envelopes, and the pause switch; at the client's end two requests, a
  probe and two pushes, enough for an answer to be taken by the wrong request, and for the second challenge
  to be refused.
* `copies`: three events give every relation between three stamps: older, newer, concurrent with a tie
  broken by actor, a deletion before, between and after. Boards: two cards, two pages and three requests,
  the audit log failing after any of them, where the third request leaves one page that is sure of its copy
  (`Regions`). Calendar page: five loads, steps or saved events, two days and two views.
* `daemon`: five regions of `MCMemberDaemon`: two groups and three members without messages; one group with
  three members and two restarts, so that an owner stopped inside an operation comes back and onboards
  again; one group with three members and a message; two wallets with an invite; two wallets with three
  messages and a restart, or two of each.
* `webapp`: two requests, two approvals, four calls, two failed executions, a cut-off; two notices and two
  turns of the bell; one event with two starts, two requests that edit it statement by statement, one tick
  at a time with a batch of one, so that a tick leaves rows for the next (ticks that overlap are what
  `RemindedOnce` exempts); a channel of two with three posts, five calls and pages of one.
* `webapp_data`, two of whatever overlaps in a part (`x1`, `x2`), and: imports: slices of two over a list of
  three rows that repeats an address, a titled table with two columns of one name, an extracted note, one
  fault; CRM: four operations and one merge, two records of one kind and one below them; membership: two
  invites, three calls, founder, allowlisted member and stranger; sign-in: three refresh tokens and five
  trips, the least for two refreshes to cross, a token to be presented again and a sign-out to follow;
  deadlines: two events, two dates, three saves by one member with another assigned, a clock that stands
  still; audit chain: three rows over two workspaces and one edit (one changed or deleted row: an edit that
  rewrites several is not explored); form: five inputs or saves of two fields; agents: three conversations,
  two turns, four tools of different kinds; personas: a template, a copy, a grant, four requests, the least
  for a resource of one persona to be reached under a grant for another; documents: two channels, four acts,
  links of one tick; mail: two spellings of one mailbox, three mails, two lost answers; memory: two
  findings, two approvals executed in all (both of one finding, or one each), one recall, a budget of one.
  `Regions` of `MCWebappData` cuts four of these products: a log whose appends overlapped stops at two rows,
  a fourth request to personas comes only before threads, a fourth act on documents only while no agent
  replies, and a second approval of findings that follows a lost answer only without a recall.

Symmetry is used where the permuted values are interchangeable, and not with liveness. Deadlock is checked
except where the system may stop: connections that are all closed, pages whose requests are used up, daemons
whose operations are used up, a socket that is gone, requests that have all returned.

## 6. Findings with a run

Three runs state what the repository says and show the code does otherwise:

* `store_seq_reused` (`SeqUnique`). `persist_envelope` comes before `persist_group`; after a crash between
  the two the log on disk holds an envelope whose `group_seq` the restored `next_seq` gives out again.
* `ws_mail_lost` (`NothingLost`). A drained mailbox goes into the channel of a connection whose peer has
  gone; nothing puts it back.
* `approvals_reject` (`RejectedNeverRan`). Rejection checks the status it read and updates without a
  condition: it can overwrite a concurrent approval that has run.

## 7. Statements of the repository that do not hold and have no run

Each is defined at the end of its module or, where a passing run checks a weaker form, is that property
without its condition. To see one fail, put it in place of the properties of the module's configuration
(`SessionHasConnection` with `Holds <- TwoWallets`).

| Statement | Where | What happens |
|---|---|---|
| `RosterFitsFanOut` | `src/crates/comms-relay/src/lib.rs:590` | The comment on MAX_RECIPIENTS (src/crates/comms-relay/src/lib.rs:587) says "a group larger than this cannot exist, so a legitimate fan-out never approaches it". Neither onboard (lib.rs:916) nor redeem_invite (lib.rs:776) bounds the roster: TLC grows a roster past MAX_RECIPIENTS, after which a member's submit addressed to the whole group is refused with TooManyRecipients. |
| `ReplayNamesCommit` | `src/crates/comms-relay/src/lib.rs:1129` | B014 (src/crates/comms-relay/src/lib.rs:1124) says of an identical Commit "Return the seq already assigned to this epoch's accepted Commit". The search takes the first Commit of that epoch in the log; after a crash between persist_envelope and persist_group the log may hold an earlier, unaccepted Commit of the epoch, and the replay is answered with its seq, which by then names another envelope. |
| `OnboardAllOrNothing` | `src/crates/comms-relay/src/lib.rs:929` | onboard's comment (src/crates/comms-relay/src/lib.rs:927) says "the op is all-or-nothing, and a half-applied add would otherwise reach disk with the group's next write". The Welcome's own persist_group already puts the roster with the joiner on it: a crash before MemberAdded is appended leaves a durable member that no audit record admits. |
| `ChainOpens` | `src/crates/comms-relay/src/lib.rs:390` | audit_append's comment (src/crates/comms-relay/src/lib.rs:388) says the record is "kept atomic with the chain". The record is pushed on the chain in memory before the put; when the put fails the chain keeps it, the next record is put under the following key, and the gap on disk makes open() fail with SequenceBreak at every later start. |
| `RedeemOnceDurably` | `src/crates/comms-relay/src/lib.rs:793` | redeem_invite's comment (src/crates/comms-relay/src/lib.rs:779) says "a redeem we could not durably mark consumed is never observable (no single-use replay after crash)". Memory keeps the roster add when persist_invite fails, the next write of the group puts the roster, and after a restart the wallet is a member while the token is unconsumed and admits a second wallet. |
| `LoginWithinTTL` | `src/crates/comms-core/src/identity.rs:68` | The comment on NONCE_TTL_MS (src/crates/comms-core/src/identity.rs:41) says "A nonce older than this can no longer complete a SIWE login". consume looks at no age; an old nonce is only evicted by the next issue, and the message's own expiration is counted from when the client signs: TLC completes a login with a nonce older than the limit. |
| `OneTimeUse` | `src/crates/comms-relay/src/lib.rs:568` | The comment on take_key_package (src/crates/comms-relay/src/lib.rs:560) says "The on-disk queue is updated so a consumed package does not reappear after restart". The result of persist_keypackages is dropped (`let _ =`): when that put fails the package is handed out all the same, is still in the queue on disk, and a restart hands it out again. |
| `ConnectedCounts` | `src/crates/comms-relay/src/ws.rs:205` | connected() is documented (src/crates/comms-relay/src/ws.rs:98) as "Number of currently-connected, authenticated wallets". The teardown removes the registry entry of its wallet without looking whose channel it holds: when the wallet has reconnected meanwhile, the entry (and then the session) of the new connection goes, which stays connected and authenticated, is not counted, gets no deliveries and has its requests refused. |
| `SessionHasConnection` | `src/crates/comms-relay/src/ws.rs:255` | The teardown's comment (src/crates/comms-relay/src/ws.rs:206) says "end the authenticated session on disconnect so it does not persist for the process lifetime". `authed` holds one wallet and Authenticate overwrites it: after a second login on the connection the first wallet's session and registry entry are never removed. |
| `JoinerInStep` | `src/crates/comms-member-daemon/src/lib.rs:400` | join_group calls stash for everything fetched with the Welcome before join_with_welcome has put the group into self.groups, and stash (lib.rs:509) keeps only Welcomes and envelopes of groups in self.groups: a Commit or message that followed the Welcome is dropped and the joiner cannot reach the group's epoch. src/crates/comms-member-daemon/src/lib.rs:399 says "Everything else that was fetched stays buffered for the op that consumes it." poll_messages of another group does the same to the mail of a group whose Welcome is still pending. |
| `SharedEpoch` | `src/crates/comms-member-daemon/src/lib.rs:669` | add_member merges the Add Commit into the handle before submit_commit asks the relay, and does not roll it back when the relay refuses it because an external Commit has taken the epoch; the poll that should merge that Commit then fails. src/crates/comms-member-daemon/src/lib.rs:749 says incoming Commits "are merged here too, advancing this member to the shared epoch". |
| `TokenAdmits` | `src/crates/comms-member-daemon/src/lib.rs:598` | redeem_invite consumes the token at the relay first; if any Commit was accepted since publish_invite exported the GroupInfo, the external Commit is for a past epoch and is refused, so the invitee is on the relay's roster but not in the group and the token is spent. src/crates/comms-member-daemon/src/lib.rs:523 says "a token-holder self-admits by external commit with no further owner action". |
| `RosterIsTree` | `src/crates/comms-member-daemon/src/lib.rs:1080` | reconcile_roster only adds wallets, so a member that merges a Remove Commit goes on addressing the removed wallet, and the relay refuses a submission with a recipient outside its roster. src/crates/comms-member-daemon/src/lib.rs:750 says poll_messages is "reconciling the roster from the authenticated MLS tree"; the comment on reconcile_roster, "Removals are handled on the offboard path, not here" (src/crates/comms-member-daemon/src/lib.rs:1079), is true only of the owner that offboards. |
| `DecryptedIsReturned` | `src/crates/comms-member-daemon/src/lib.rs:836` | When one envelope of a poll fails to decrypt, poll_messages returns Err and drops `out`, although the messages in it have been consumed by the ratchet and persisted: they are never returned. src/crates/comms-member-daemon/src/lib.rs:761 says that "anything left after a failure" goes "back to the inbox instead of being dropped", and src/crates/comms-member-daemon/src/lib.rs:826 that only "the failing envelope is consumed". |
| `GenerationOnce` | `src/crates/comms-member-daemon/src/lib.rs:743` | send hands the ciphertext to the relay and persists afterwards: a crash between the two restores the generation that was just used. src/crates/comms-member-daemon/src/lib.rs:741 says "persist so a restart does not reuse a generation (which would reuse an AEAD nonce)". A refused submission returns before the snapshot as well. |
| `PendingJoined` | `src/crates/comms-member-daemon/src/lib.rs:428` | join_pending skips a Welcome for a group that is in the registry, and nothing takes the row of a group the member was removed from out of it: a member that was offboarded and added again never joins. src/crates/comms-member-daemon/src/lib.rs:412 says "Join EVERY group this member has a pending Welcome for". |
| `OwnAnswer` | `src/crates/comms-member-daemon/src/relay.rs:305` | is_connected drops its challenge request after 500 ms without taking the answer, which stays on resp_rx when it arrives; next_response pairs answers with requests by position only, so the next request takes the late Challenge and every later one the answer of its predecessor. src/crates/comms-wire/src/client.rs:43 says "Request methods serialize one round trip". |
| `ProbeIsTrue` | `src/crates/comms-member-daemon/src/relay.rs:307` | is_connected asks the relay for a challenge, and the relay counts challenges per connection, authenticated or not, up to MAX_CHALLENGES_PER_CONN = 32 (src/crates/comms-relay/src/ws.rs:187): after some thirty probes of a healthy connection the relay answers Error and is_connected returns false for good. src/crates/comms-member-daemon/src/relay.rs:300 says the probe "reflects the live socket" and "works regardless of session state". |
| `NoFalseAlarm` | `src/webapp/src/lib/audit/chain.ts:54` | appendAudit reads the head and inserts in two autocommitted statements; two concurrent appends take the same prevHash and verifyChainFromDb then returns verified: false for a table nobody edited. src/webapp/src/lib/audit/chain.ts:3 says "Each record links to the prior via `prevHash`"; src/webapp/src/lib/audit/chain.ts:49 says callers should append inside a transaction, and none does. |


The conditions on the messenger's passing properties come from this list. They are conjunctions of named
parts: `DeliveredAsOrdered`, `MembershipAccounted` (`Relay`), `PromisesDurable`, `Reopenable`
(`RelayStore`), `SingleUse`, `AcceptedKept` (`KeyDirectory`), `ConnectionsServed`, `TeardownClean`
(`RelayWs`), `Convergent` (`DomainStore`), `ConversationSound` (`MemberDaemon`), `AnswersMatch`
(`WireClient`). Of the parts, `ChainOpens`, `RedeemOnceDurably`, `AcceptedReplayable` and `OneTimeUse` hold
while no put has failed (for `AcceptedReplayable`: memory keeps an epoch as committed when the put of its
Commit fails, and nobody can replay it); `SessionHasConnection` and `RegistryLive` while a connection signs
for one wallet; `AcceptedOnce` while no process stopped inside an operation; `StaysInStep` while the inbox
is below its cap, before an invite is redeemed and while no process stopped inside an operation (without
that TLC finds an owner that comes back behind the order, onboards on its old history and has a later Commit
of it accepted, which no member can merge); `NeverOffset` until a probe has timed out; `NoFalseAlarm` while
no two appends of a workspace overlap. `AcceptedReaches` holds for a connection that stays open and keeps
its wallet's registry entry: the teardown of an older one (`ws.rs:205`) or a login elsewhere takes it, and a
delivery that copied the registry before (`ws.rs:534`) drains the mailbox into another channel.

The web application's modules carry the condition in the property, as a history variable (`raced`, `late`,
`strayed`, `overlap`, `missed`, `unsure`, ...) that says what the code does not guard against. Where the
behaviour below is in a model, dropping the condition shows it; the rest was read in the code while it was
modelled (files under `webapp/src`).

| Where | Statement | What the code does |
|---|---|---|
| `lib/domain/import-engine.ts:415`, `app/api/workspaces/[id]/import-jobs/[jobId]/tick/route.ts:10` | "dedupe absorbs re-runs" | Tasks and contacts without an address have no key: a slice run again inserts them again, and two overlapping slices can insert any row twice. A slice that ends late turns a finished job back to queued; one that was cut off holds a row again that a reviewer has let through. |
| `lib/domain/import-engine.ts:7` | "the preview a human approves is exactly what runs" | The preview computes the blind index under the workspace `"preview"`, so its merges by address differ; a review lets through only the rows held when it was given. |
| `lib/domain/crm.ts:335` | "Every create PATH must go through these" | The POST routes of accounts, deals and contacts insert without looking. |
| `lib/domain/crm-dedupe.ts:7` | "transitive within a group" | A row joins an earlier row by its domain, else by its name: two earlier rows that a third one connects stay apart. A note or a tag that is added between the re-pointing and the delete is left without its record. |
| `components/crm/RecordFile.tsx:286` | "Custom fields that changed." | Changed against what the form was opened with; a refresh meanwhile lets Save put back a value another user has replaced. |
| `lib/domain/members.ts:77` | "no window where one outlives the other" | Status and assertions are written by separate statements, and a PATCH that read the member before writes a live assertion after. |
| `app/api/join/route.ts:19` | "must match the invite when present" | `acceptInvite` does not require it (`lib/domain/invites.ts:169` says so). |
| `app/auth/callback/route.ts:88` | "the session survives past an hour" | Two requests that refresh at once present one token twice (`proxy.ts:86`): a provider that revokes the grant on reuse, as oidc-provider does, leaves the browser with a token that is no longer good, and the user is signed out when the id token expires. |
| `components/members/MembersScreen.tsx:5` | anti-escalation is "reflected here" | The role list offers an Admin the role Admin, which the server refuses. |
| `lib/domain/channel-agent.ts:3` | "reads the recent channel context" | It reads the first page of the channel, the oldest messages. |
| `lib/domain/messages.ts:6`, `:145` | `seq` is "assigned atomically" | Two inserts read one maximum and no unique index refuses the second: a reader whose cursor stands at that number misses it. |
| `lib/domain/calendar.ts:222` | clears the "unsent reminders" | It deletes all of the event's rows, sent ones too. Deletion and insertion are two statements (`:230`, `:239`) with no unique index (`lib/db/schema.ts:1145`): two edits that both delete before either inserts leave two rows for everyone, and one tick reminds twice (`overlap`). A tick that overlaps another sends twice, and one that is cut off after its claim not at all. |
| `lib/domain/calendar.ts:583` | "always exactly one live pin" | Two runs can each remove the old pin before either sets its own, and both stay. |
| `lib/realtime/notif-feed.ts:40` | the snapshot "reconciles" the optimistic bump | A bump that arrives after the snapshot which counted it stays until the next one. |
| `components/crm/CrmScreen.tsx:78` | "restore on failure" | Of two overlapping deletes the failure of the first restores the list from before both. The routes write and then append to the audit log: when that fails, the page brings back a deleted card (also `components/pm/PmScreen.tsx:111`) and does not show a new one. |
| `components/calendar/CalendarView.tsx:114` | "Fetch events whenever the visible range extends beyond what we've loaded" | Loads carry no number: of two reloads of one range (`:136`, `:212`) the one the server read first may be answered last, and the page keeps the older events. |
| `app/api/workspaces/[id]/agents/[agentId]/chat/route.ts:80` | an incognito turn "leaves no trace" | Three tools that write (`calendar.pin_summary`, `crm.ingest`, `tables.map`) are not among the tools it drops. |
| `components/agents/AgentChat.tsx:196` | the two kinds "never share a window" | Resuming a thread while incognito, or while a turn is streaming, puts both in one. |
| `lib/ai/personas.ts:138` | "all agents get every tool" | Tools that need `CreateRecord` are refused to the role Agent. |
| `lib/domain/approvals.ts:79` | `ManageWorkspace` is "(Owner/Admin)" | The role Admin does not have it. |
| `lib/domain/agent-config.ts:189` | "idempotent on (grantee, personaId)" | It looks and then inserts, with no unique index; two grants at once leave two rows, and revoking one leaves the other. |
| `lib/domain/documents.ts:276` | "RAG falls back to lexical until then" | As soon as one visible chunk has a vector, chunks without one are not found. |
| `lib/memory/index.ts:29` | the fallback is "always available" | An assertion whose answer timed out is stored in both, and one whose insert was served without an answer is stored again by the second attempt (`lib/domain/approvals.ts:430`) or by the next approval; what was stored during an outage is not recalled after it. |

## 8. Fairness

* `RelayWs!FairSpec`: weak fairness of each task's next step and of each writer (the runtime polls ready
  tasks, the mutex is fair), strong fairness of `CloseSeen`: a closed socket holds finitely many buffered
  frames, so the reading loop reaches its end. Peers owe nothing: they may disconnect, never send, never
  authenticate.
* `WireClient!FairSpec`: the relay answers, the read task runs, an awaited channel wakes. `Close` is always
  possible and the time-out of the probe is not owed.
* `Approvals!FairSpec`: a request that is not cut off gets its next statement executed.
* `Notify!NotFair`: the browser reopens a stream that ended (EventSource), the stream's timer ticks and its
  events are delivered, the bell polls while it has no stream, and answers arrive. Nothing is owed by the
  one who sends pings or reads them.
* `Calendar!CalSpec`: the cron calls `runDueReminders` again and again, and a tick that is not cut off goes
  on.

`MCConnection` and `MCWebapp` state the same fairness for the part that is explored.

## 9. Proofs

For every value of the constants that meets the named assumptions: those in the module that declares the
constants (`OwnerAssumption`, `BoundsAssumption`, ...), which TLC evaluates on every run, and three
hypotheses that theorems state themselves: `OneWalletEach` in `RelayWsProofs` (section 7 says what happens
without it), that no finding an agent proposes is one the gateway derives (`FindingsKeptHolds`), and that a
record has finitely many custom fields (`OthersKeptHolds`). The bounds of the exploration (`Max...`) are
constants like any other: the theorems hold for each value of them.

Each property is strengthened to an invariant that a step keeps, action by action; what the strengthening
adds is the argument.

* `RelayProofs`: `TypeCorrect`, by one case per action over lemmas on the operators that build groups and
  mailboxes. `TotalOrderHolds` and `Refinement` rest on `StepKinds`: every step registers an empty group,
  appends one envelope that passed `OrderOk`, or changes no log. What `Appended` does to a group that is in
  order is then proved once (`AppendedOrdered`, `AppendedOrder`) and not once per action. `TotalOrder` is
  inductive together with the type invariant; it contains the relation between `next_seq`, `current_epoch`,
  `accepted_commit` and the log without which one Commit per epoch is not. `MembershipHolds` rests on one
  count, `GenerationsCount`: the grant generation of a wallet is the number of its removals on record. A
  grant carries the generation it was given under, so that one given before a removal can never again match.
  `InvitesCounted` does the same for tokens: at most as many redemptions as publications, with one to spare
  while the invite is open. `DeliveryHolds` adds to `TotalOrder` that streams and answers name registered
  groups and that a log holds its own group's envelopes; a mailbox is then the part of the log behind what
  was drained.
* `RelayStoreProofs`: `PromisesDurableHolds` and `ReopenableHolds` speak of the disk between any two puts,
  so `StoreInv` says what each method has put so far and what it still owes (`CallType`), and then, for
  envelopes (`AckedInv`), the dropped roster entry (`RemovalInv`), the use of an invite (`RedeemInv`), the
  audit chain (`ChainInv`) and accepted Commits (`ReplayInv`), how the disk differs from memory at that
  point. A crash then loses only what nobody was told.
* `KeyDirectoryProofs`: `SingleUseHolds` and `AcceptedKeptHolds`. A nonce is live, or was presented and is a
  login or a publication, never two (`NonceInv`). A publication is at one place on disk, or in the hands of
  the call in progress, or handed out (`PlaceInv`); the queues in memory and on disk differ by the one
  publication that call is about (`KeptInv`).
* `RelayWsProofs`: `RegistryStaysLive` and `SessionsEnd`, together `TeardownIsClean`. Neither is inductive.
  `IInv` adds that a connection authenticates only as wallets it holds (`Held`) and that a registry entry
  belongs to a connection that is still before its teardown (`RegistryHeld`). The other steps are `Neutral`
  and keep the invariant by one lemma. `ConnectionsServedHolds` needs `ServedInv`: what a handler carries
  from one lock to the next still fits the wallet (`JobInv`), mailboxes fill in the order of acceptance
  (`MailInv`), and what is on a stream is older than what waits in the mailbox and on no other stream of
  that wallet (`StreamInv`).
* `RecordProofs`, four parts without common state. `DomainStore`: `TypeCorrect`, `FoldIsInvariant`,
  `Convergence`, together `ConvergentHolds`. A fold of one event into a record that is prescribed by a set
  of events gives the one prescribed by the set with that event, whether new, repeated or old
  (`AppliedPrescribed`). Convergence needs the prescribed record to be unique, which holds since one stamp
  is used by one event only (`StampsStep`, from the Lamport clock). `TombstoneStaysHolds` is an action
  property: a fold never takes a tombstone back (`TombstoneKept`), and a snapshot replaces only a store that
  has folded nothing.
  * `ScreensTrueHolds` (`Screens`). `BoardInv`: a page that is sure of its copy waits for one answer at
    most, and it and the server differ in the card of that request alone (`PageFits`), so that the answer,
    or the copy a deletion restores that was not written, makes them agree. `PageInv`: a load that was asked
    for alone is the only one and reads what the server has had since.
  * `NoDanglingHolds`, `NoDoublesHolds` (`Crm`). `CrmType` says what a request and a dedupe run under way
    know, among it that a record is at one place of the run only: in the list, the duplicate, or the
    canonical record of a key (`RunFits`). `DanglingInv`: the tables a merge or a deletion has passed hold
    nothing of the record but what was written late. `DoublesInv`: a run that has the CRM for itself has
    left no doubles in the kinds behind it, and each record it has passed is the canonical one of each of
    its keys (`Settled`).
  * `Imports`. `SensitiveHiddenHolds`: `HiddenInv` says how the columns and the stored rows of a sheet came
    to be (`SheetHides`), whichever way it was staged. `NoDuplicatesHolds`: `ImpType`, which includes what a
    worker's slice and a job are at each statement, and `MapsInv`: without an overlap the maps of the only
    importer are what the tables hold, so that what it does not find there is not there.
    `ImportAccountedHolds` has two halves. `SeenInv` holds for any overlap: neither a job's cursor nor a
    snapshot of it, nor how far a slice has come (`Reached`), lies beyond a row that is still new.
    `CountInv` needs the worker to be alone: what it has counted is what it has taken (`Dealt`), and the
    rows on hold, counted as a set, are no more than the job says, with the difference made by those the
    slice has put on hold or written since; alone, a flush therefore never brings `heldCount` below zero,
    which the `Math.max(0, ...)` of the code would hide.
* `WorkProofs`: `TypeCorrect`, `OneExecutionHolds`, `RecordsAgreeHolds` (`Approvals`). `Exclusive` says that
  a claim has one holder, that the action has not been completed while it is held, and that an approval
  which can still be claimed is neither held nor completed; `OneExecution` alone does not exclude a second
  holder who is about to execute. `Stories` says of each approval which of its records are written at each
  statement of the request that holds it. `DelegateConfinedHolds` (`Personas`). `PerInv`: a request that
  will configure a persona names one its caller was entitled to, and a resource is reached only through the
  persona it belongs to. `ReplyFitsAudienceHolds` (`Channels`). `ReplyChecked`: past its second check an
  answer fits everyone seated, or is marked because a seat or a standing changed since.
  `NothingSkippedHolds` (`Channels`). `PageInv`: every number up to the highest is taken (`Numbered`), and a
  view shows all up to its cursor now and after each of the answers on their way, in whatever order they
  arrive (`ViewOk`). `TurnsAsTypedHolds` (`Agents`). `AgInv`: a turn asks for the thread its window showed
  and is kept there or nowhere, by its author (`Kept`), and what tools left behind belongs to a turn there
  was. `RemindedOnceHolds` (`Calendar`). `TickInv`: what a tick holds is marked before it is sent
  (`RowsHeld`); what a request is about to insert lies ahead of every notice that was sent, since rows are
  worked out against the clock when the old ones are deleted (`RowsAhead`, `ToldEarly`); and while nothing
  overlaps, one tick runs (`OneTick`), a notice has one row, marked once it was sent (`OneRow`), and nobody
  else inserts one for it (`NewNotice`). `DeadlineMirroredHolds` (`Calendar`). `MirrorInv`: unless syncs
  crossed or an event was edited by hand, the task is on the calendar as it is, or a sync that has still to
  read it is under way.
* `MemberProofs`. `ConversationHolds` (`MemberDaemon`) rests on three invariants. `DaemonType` is the types
  with what an operation under way is about. `OrderInv` speaks of one line per wallet (`Waiting`): what
  waits at the relay, in its inbox and in the hands of `join_pending`; the line rises and is later than
  anything shown of its group. `poll_messages` is a loop over that line, and the facts about it are proved
  for each of its turns (`LoopFact`, over the recursive function `PollLoop`). `KeyInv`: registry and disk
  are past every key used (`Covers`), and an operation that moved a ratchet owes a snapshot (`op = Persist`)
  before it returns. `StaysInStepHolds` (`MemberDaemon`) is an action property. What its four exceptions
  leave (`Undisturbed`) keeps `Settled`: the owner's registry is at the head of every group's order and its
  tree is the roster (`OwnerFact`), so that a Commit of its own takes the next place; every Commit that
  waits for another member says the history it was made on and lies at that place of the order (`Placed`),
  the owner has none, and the order rises (`Sorted`). A merge is then of the next Commit or of none. There
  is one lemma per action (`KeepsBy...`), and for the two loops, a poll and `join_pending`, one per turn; a
  step that shortens a line without dropping a Commit keeps it all (`ThinStep`). `AnswersMatchHolds`
  (`WireClient`). `MatchInv`: until a probe has given up, a request is at one place of the circuit, the
  socket, the answers on it or the channel, and what is there fits it (`OneAtATime`). `OrderedPush` states
  the order of the pushed frames by positions: those drained and queued are a beginning of what was pushed,
  those on the socket the rest.
* `WebappProofs`, seven parts without common state:
  * `MembershipSoundHolds` (`Workspace`). `EntitledInv`: between the check of an accept and its commit the
    issuer's row is unchanged or the accept is marked. `CleanInv`: each statement of an offboarding has left
    nothing behind once it has run, for everyone not in `strayed`. `WsEffect` is what every step may do to
    rows, proved once per action and used for both.
  * `SessionSoundHolds` (`SignIn`). `TokensInv`: until a grant is revoked, a refresh token is in one place
    only, the jar or one answer in flight (`HandedOver`), and no request that could spend it is under way.
    `CrossInv`: until a refresh is sent during another's, one request at most is to refresh, with a good
    token, so that none is presented twice. `OutInv`: after a sign-out with nothing else in flight only an
    answer that belongs to a new sign-in brings cookies.
  * `ChainHonestHolds` (`AuditChain`). `IssuedInv`: every MAC the application has issued is the sequence of
    records along its log. A chain that verifies ends in the MAC of its own contents (`VerifiedHash`, by the
    least row where it would not), so the log is one that was written (`TamperLemma`), whatever was done to
    the table. `LinkedInv`: without edits and overlaps a record under way follows the head, so that
    appending it keeps the chain verifying (`VerifiesAppend`).
  * `FindingsKeptHolds` (`Memory`). `FindingInv` places a finding at each state of its approval: one no
    store took without its answer being heard is in none until it is approved, and then in one, once;
    `FloorInv` rests on the order of trust tiers (`AgentsBelow`).
  * `UnsubscribeHonouredHolds` (`Mail`). `MailInv`: who was told is suppressed, a posted page has suppressed
    its address, and a late mail is still before the check or held back by it.
  * `OthersKeptHolds` (`RecordForm`). `FormInv`: a form that was not refreshed differs from the page's
    record only in fields typed into, and only those wait to be sent.
  * `DocumentsConfinedHolds` (`Documents`). Documents, seats and shares only grow, so that a reader keeps
    seeing what they saw as long as their standing stays (`SightKept`). `LinksInv`: a link's holder still
    sees the document, or the link ends within `TTL` of the change of standing. `ReplyInv`: what is cited
    was visible to everyone the answer was scoped for; the second check carries that over to everyone
    seated, since a reply with documents passes it only when all of them are internal and were before.

Only model-checked:

* Everything under fairness (`AcceptedReaches`, `ConnectionEnds`, `ClaimEnds`, `NoticesArrive`): liveness
  and `ENABLED` are out of the prover's reach.
* What the folds of `ImportParse` and `AuditChain` compute for every sheet or log beyond what the theorems
  use: induction over data. `SensitiveHiddenHolds` needs only that `parseWorkbook`, `splitCells` and
  `readRow` ask the same question of a column.
* The three findings and the statements of section 7: a violation is a behaviour, and TLC shows it.

Some operators are defined by positions or as sets, where the code filters or sorts, so that they can be
reasoned about: the log of a workspace in `AuditChain` (`Chain`: the row with `k - 1` rows of the workspace
before it is the `k`-th), the drained part of a log in `Relay` and the order of pushes in `WireClient`
(`DeliveredInOrder`), the part of a line that a handler keeps in `MemberDaemon` (`Picked`) and its loop, one
turn per index (`PollLoop`), the page of `Channels` (`listMessages` is the set of posts on it), the due rows
of a tick in `Calendar` and the held rows of a flush in `Imports` (any sequence that is in order and
complete up to the limit: `TickStarts`, `FlushRows`), and the rows and columns `ImportParse` keeps
(`InOrder`, `columnsFor`).

## 10. Not modelled

* Cryptography, encodings and encryption at rest: a signature is whether it is in order, a hash is its
  input, an MLS state the Commits merged into it.
* Mailboxes after a relay restart: `open()` starts with none; `RelayStore` leaves them out.
* In `MemberDaemon`: only the owner changes membership, as the relay's roles allow by default; relay answers
  are not lost; a wallet redeems an invite or joins only a group that is not in its registry, except where
  `join_pending` meets one; one KeyPackage is published at each start.
* Per-address rate limits, TLS, configuration, key files, the IPC line protocol, release manifests, the
  screens of the desktop client.
* Of the web application: calls to model providers and what they answer, prompts, ranking of search results,
  the content of messages, notes, mails and documents; the pinned summary of a calendar beyond that it is
  posted; scheduled research; layout, and screens that only show rows.
* The hash chain of the witness ledger: entries are made and resolved in `Channels`, and nothing in the code
  verifies their hashes.
