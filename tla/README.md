# A formal model of whiteboard-collab

TLA+ modules, TLC model checking and TLAPS proofs for the collaborative
whiteboard in this repository: the Go relay (`src/apps/relay`) and the
whiteboard modules of the SvelteKit frontend
(`src/apps/web/src/lib/whiteboard`).

Sections: 1 the system, 2 the modules, 3 the runs, 4 fairness, 5 proofs,
6 where code and documentation disagree, 7 what else the models show,
8 what is not modelled, 9 plan.

## 1. The system

| Component | State it keeps | Operations | Talks to |
| --- | --- | --- | --- |
| Room store (`roomstore/store.go`) | boards by id, board ids by join code, participants of each board, time of last activity; one mutex | CreateBoard, GetBoardByJoinCode, JoinBoard, RevokeJoinCode, RemoveParticipant, TouchBoard, PruneExpired; every operation removes an expired board it meets | called by the router |
| Router (`httpapi/router.go`) | connections by board, session by connection, board owners, pending snapshot requests with timers, disconnect reasons; one mutex, released before every socket write | one goroutine per WebSocket: session.create, session.join, board.snapshot, board.snapshot.ack, board.action, presence.update, participant.kick, board.code.revoke, heartbeat.ping, disconnection; snapshot timers | room store, rate limiter, sockets |
| Rate limiter (`httpapi/rate_limit.go`) | a window start and a count per key | Allow | called by the router |
| Socket client (`socket-client.ts`) | current socket, reconnect timer, queued messages, status | connect, disconnect, send; socket and timer callbacks | browser WebSocket, sync controller |
| Sync controller (`sync-controller.svelte.ts`) | phase, editing lock, session intent, pending realtime messages, handshake flag | connectOwnerSession, connectGuestSession, disconnect, sendBoardAction, sendPresenceUpdate; one handler per server message | socket client, board store, session state |
| Board store (`board-store.svelte.ts`) | board, action log, client sequences, object versions, active strokes, undo and redo stacks, selection | local edits, applyRemoteAction, undo, redo, replaceSnapshot, import, persist, restore | sync controller, draw pipeline, persistence |
| Draw pipeline (`board-draw-pipeline.svelte.ts`), action identities (`action-identity.svelte.ts`) | active stroke, points not yet flushed; number of the last action | beginStroke, appendPoint, flushPendingPoints, endStroke | board store |
| Persistence (`board-persistence.svelte.ts`) | two local-storage entries per board | persist, restore | board store |
| Board files (`board-json.ts`, the JSON part of `board-export.ts`) | none: what counts is which texts are accepted and what they give | export, import | board store |
| PNG export (`board-export.ts`) | none: the extent of the picture and of what Konva paints | buildBoardExportScene, createKonvaNodeForSceneElement | board store |
| Page (`+page.svelte`, `session-state.svelte.ts`, `connection-state.svelte.ts`) | landing or board, session, connection status, join form, open panels, revoked code, chosen tool | createBoard, submitJoin, showBoardFullOverlay, resetToLanding, panels, revoke, regenerate, kick | session state; not yet connected to the other modules |
| Process, configuration and HTTP routes of the relay (`cmd/relay`, `internal/config`, `ServeHTTP`) | the settings as read, normalized, enforced and announced; how far the process is | Load, NewRouter, the routes, start and end | environment, router, room store |
| Contract of messages (`types.ts`, the `validate...` functions) | what is on the wire between two programs in two languages | what one writes, what the other checks | sync controller, router |
| UI components (`lib/components/ui`) | none that others depend on | presentation | - |

Three more things are nobody's component and come about between several: who is
shown in the *participant panels*, the *snapshot handshake* of relay, owner and
guest, and the *shared board* end to end. They have modules of their own.

How they interact: the sync controller of each user talks to the relay over its
socket client. An owner creates a board (`session.create`), a guest joins it
with a code (`session.join`); the relay then asks the owner for a snapshot,
forwards it to the guest and, after the guest's acknowledgement, the guest may
edit. Actions are broadcast to the others of the board, without a central order.

What is hard in it:

- every handler of the relay is a series of short critical sections with socket
  writes in between, so that a join, a kick, a revocation, an expiry, a snapshot
  timer and several disconnections interleave at will;
- the store's clock readings are taken before its lock;
- the client survives lost connections with two queues, a timer and a handshake
  flag, in callbacks that run in the middle of each other's turns;
- local storage may refuse a write, which then throws in the middle of a handler;
- boards are replicated without a central order of actions, and undo works on
  states of the whole board.

What makes each part correct:

- room store: both maps agree, list and set of participants agree, the capacity
  is never exceeded, revocation and expiry are final, activity is not lost;
- router: places on a board are taken and given back with connections, a
  snapshot request has exactly one outcome, no guest waits for an owner that is
  gone, the owner is never put out, every guest is served or let go;
- socket client: one live connection, never giving up, no message lost, repeated
  or overtaken;
- sync controller: whoever is ready has a session on this connection, a guest
  edits on the owner's snapshot only, realtime messages keep their order, the
  owner's board survives reconnections, a lost session comes back;
- board store and draw pipeline: an action counts once and in order, what is
  drawn is sent, selection and history stay sound;
- rate limiter: a burst is bounded, a refusal has its cause, whatever the age of
  the clock reading a request carries;
- files and storage: a board that is taken out comes back, or passes the relay;
  what its owner has stored is never overwritten by a guest;
- picture: it holds all that is painted;
- page: who was kicked stays out, one board leaves nothing behind for the next;
- participant panels: the owner sees exactly who is on its board, and of two guests
  at least one sees the other;
- snapshot handshake: an error has a cause, who was let in is not timed out, and
  nobody is waited for who has gone;
- settings: the relay enforces what it announces, and both are what its operator
  has set;
- contract: no message is refused for its form, and none is passed over that its
  receiver should act upon;
- all of it end to end: what users send while they are on the board reaches
  everybody on it, and the owner's board is the one of record. (After an error of
  the relay a controller sends no edits any more: those reach nobody.)

`PROJECT.json` lists the places where each of these could go wrong ("hazards").

## 2. The modules

| Module | Models | Composed with |
| --- | --- | --- |
| `RoomStore` | the store; an exported method is one action, as it holds `store.mu` from end to end | - |
| `RoomStoreProofs` | theorems about `RoomStore` | EXTENDS it |
| `Relay` | the router | `Store == INSTANCE RoomStore`: its actions call the store's |
| `RelayProofs` | theorems about `Relay` | EXTENDS it, with the theorems of `RoomStoreProofs` for its store |
| `RateLimits` | the rate limiter and the two handlers that ask it | - |
| `SocketClient` | the reconnecting WebSocket client | - |
| `SocketClientProofs` | theorems about `SocketClient` | EXTENDS it |
| `Participants` | the participant panels: joining and leaving handlers section by section, the messages to the others and what the controllers make of them | - |
| `SnapshotHandshake` | requests, snapshots, acknowledgements and errors on their way between relay, owner and guests | - |
| `Settings` | environment, limits, announcements, routes and process of the relay | - |
| `Protocol` | the contract of messages | - |
| `BoardsProofs` | theorems about `SnapshotHandshake`, `Participants`, `RateLimits`, `Settings`, `Protocol`, and all of them with the store | EXTENDS `MCBoards` and `RoomStoreProofs` |
| `SyncController` | the controller, its board seen as a set of edits, local storage, and the relay as one client sees it | `Client == INSTANCE SocketClient` |
| `SyncControllerProofs` | theorems about `SyncController` | EXTENDS it, with the theorems of `SocketClientProofs` for its client |
| `BoardStore` | the board store in detail, with persistence | - |
| `DrawPipeline` | pipeline and action numbers above the board store | EXTENDS `BoardStore`: its actions call the store's |
| `WhiteboardProofs` | theorems about `BoardStore`, `DrawPipeline`, `BoardFiles`, `BoardScene`, `AppShell`, and all of them with `Collab` | EXTENDS `MCWhiteboard` and `CollabProofs` |
| `BoardFiles` | JSON files, the relay's look at a snapshot, and local storage under changing sessions | - |
| `BoardScene` | bounds, size and offset of a picture, and what Konva paints | - |
| `AppShell` | the page with its session and connection state | - |
| `Collab` | the board shared end to end: the boards of an owner and its guests, their controllers, and the relay between them, each reduced to what decides where an edit gets | - |
| `CollabProofs` | theorems about `Collab` | EXTENDS it |
| `MCRelay`, `MCSyncController`, `MCDrawPipeline`, `MCCollab`, `MCParticipants`, `MCHandshake` | instances of one module for TLC | EXTENDS the module checked |
| `MCBoards`, `MCWhiteboard`, `MCProgress` | instances of several modules that share no state, one run each: `moving` says which of them a behaviour moves, so that TLC explores their sum and not their product; `MCProgress` also puts the messages handed to the socket client in one order (`History`), and takes the controller with its theorems (`Controller == INSTANCE SyncControllerProofs`) | EXTENDS or INSTANCE of the modules checked |
| `ProgressProofs` | theorems about the client's and the controller's parts of `MCProgress` | EXTENDS it and `SocketClientProofs` |

**RoomStore.** `boardsByID` and `boardIDsByJoinCode` are the maps of `Store`; a
record has the fields that decisions read. An operation has an error as its last
parameter, so that the router can tell the outcomes apart. A caller reads the
clock before it waits for the lock: `CallerNow` is a reading up to `MaxLag`
ticks old. `GetBoardByJoinCode` reads it under the lock.

**Relay.** The goroutine of each connection has a program counter `pc`: an action
is one section under `connectionMu`, one call of the store or one socket write,
and anything may happen between two of them. Reading a message is one action
with the first section of its handler, because nothing tells whether the
connection was closed in between. A loop over clients (a broadcast, the closing
of a board's guests) takes its list in one section and serves one client per
action. A snapshot timer is an element of `timedOut` once it has taken its
request off. A connection may be closed by its client at any time; the relay
then notices it at its next read or write. A connection attaches at most once
(`hasActiveSession`), so connections stand for the random actor ids. `roster` and
`synced` say what the other end was told.

**SocketClient.** An action is a turn of the browser's event loop, including what
the `onStatusChange` callback sends in that turn (the parameter `messages`). A
socket has a `readyState` for its whole life, also after the client has let it
go, so that late events of replaced sockets are there. The backoff delay is
abstracted to a timer that fires some time, and with it `reconnectAttempt`.

**SyncController.** The phases, locks, queues and flags are the controller's own. A
board is the set of edits on it; the relay is reduced to what one client sees of
module `Relay`: it attaches a connection, serves its messages in order, resolves
a join by a snapshot or a timeout, and sends what others cause. A connection
stands for the board and the actor it gets, since each handshake makes new ones.
`StorageThrows` and `RestoreThrows` are the handlers that end in the middle when
local storage refuses a write.

**BoardStore.** Elements are records of their kind, author and data; a stroke's data
are its points. The state that undo and redo exchange is `Editor` (elements,
selection, versions), as in `captureEditorState`. Text and sticky notes are
handled exactly as shapes are and stand under them; the order of elements and
the viewport are left out. The ghost variable `applied` says what became of
each action of others since the board was loaded. Storing a board is two writes,
the second of which may not happen.

`Spec` of `BoardStore` is the store under any order of calls; that the pipeline keeps
to it is a property of the run `whiteboard` and a theorem.

**DrawPipeline.** Every step of the store may come between two steps of the pipeline,
which is not told of them: that is how a stroke loses its board. `drawn` numbers
the points of the user, `sent` are those an action carries. A board that comes from
elsewhere - the owner's snapshot after a reconnection, a file - may hold own strokes:
what had been drawn of them by then, or less (`MayReturn`).

**RateLimits.** A request reads the clock, up to `MaxDelay` ticks before it gets the
lock; `Allow` is the section under the lock. The three limiters have their own
windows; a limit of 0 is none. `admitted` and `refused` are histories. What the
handlers do after an answer is in `Relay`, which refuses a request whatever the
limits say.

**BoardFiles.** A JSON text is what its reader looks at: whether it is an object with a
board state, and the two numbers, each of which may be missing or be refused. A
board is a sequence of elements, some of them not well formed: local storage and
other users' actions bring such, and `readBoardElement` refuses them. `Persist` is
two writes, the second of which may throw. `StartSession` is any session, also as a
guest on a board of one's own.

**BoardScene.** Plane geometry in half pixels and quarter turns. The left side is what
`calculateSceneBounds` reckons with (`ElementBounds`, about the centre), the right
side what Konva does with the attributes it gets (`Painted`: half a stroke beyond
the outline, the head of an arrow, rotation about the node's position).

**AppShell.** An action per handler of the page that changes what is shown. The panels
are modal: one that is open hides what is behind it. `Offered` is what the template
offers in a state, and guards every action. `look` tells whose tool, colour and
brush are selected.

**Participants.** A guest goes through the joining handler in five sections and through
the leaving one in three; a broadcast takes its list of recipients in a section and
then writes to one of them per action, in any order with what others write. A guest
is one of its connections: who returns has a new actor id and a new panel.

**SnapshotHandshake.** Three programs and the messages between them, one queue for each
direction of a connection. `handleBoardSnapshot` of the relay is four actions, since a
timer, a departure or the expiry of the board may come between any two. The owner
stays connected; what its disconnection does is in `Relay`. `ignored` is a history: the
guests whose request the owner's controller has passed over.

**Settings.** A word of the machine has `Word` values and a second has `Second` ticks, so
that a product of seconds wraps as `time.Duration` does. Environments are all
combinations of numbers, nothing and garbage.

**Protocol.** Which texts are blank, padded or neither is all that trimming can see of
them. One message is under way to the relay and one from it: the contract is about
single messages, their order is in the other modules.

**Collab.** The composition of `Relay`, `SyncController` and `BoardStore`, with every part
reduced to what decides which edit gets where: a guest is among the recipients
before the owner is asked; an action goes to the recipients listed when it was
read, one write at a time; the snapshot replaces the guest's board. An edit makes
an element of its own. A connection may be lost at any point, with all that is
under way on it; the guest returns as a new actor. `due` is a history: the edits
that a user should see.

What the relay refuses it answers with an error, and that ends the phase "ready" of
the client (`ReceiveError`): a snapshot for a guest that nobody awaits any more, that is
no longer connected or whose socket fails while it is written; a snapshot or an
action after the board has expired (`Expire`); and, in one step of the client
(`RefuseOther`), any other message of its own that may be refused. From then on its board
stays open, its edits are kept back, and an owner passes over requests for its snapshot.
`EditsArrive` is therefore about edits that have been sent; those kept back are due to nobody.
The owner's own connection lasts, so that what it keeps back stays with it: the
reconnection of an owner is in `SyncController`, and its guests are not on the board it gets
then. A request that times out closes the guest's connection (`LoseConnection`).

**Faulty variants.** A definition whose name continues the name of another one
(`IsFullOffByOne`, `KeepOwnerBoardUnstored`, `CheckpointKeepingRedo`) is a faulty
version of it and is used by nothing. Each property of a passing run is known to
fail when one of them takes the place of the original (`PROJECT.json`,
"mutants").

## 3. The runs

| Run | Instance | Distinct states | What it shows |
| --- | --- | --- | --- |
| `boards` | store: 2 boards, 2 codes, 3 actors, 2 places, TTL 2, lag 1, clock to 3; panels: an owner and 2 guests; handshake: an owner and 2 guests, versions to 1; settings: numbers -1, 0, 1, 6, 33 in a word of 64, a second of 2 ticks; contract: 2 ids, padded and blank texts, numbers -1 to 1; rate limits of 0, 1 and 2 in windows of 3 ticks, readings 1 tick late, to time 6 | 484,092 | the store under callers that may do anything its interface allows; who sees whom; the handshake and its errors; settings from the environment to what is enforced; every message against its reader; bursts and refusals |
| `relay_guests` | 3 connections, 1 board with 2 places, TTL 1, clock to 1, no owner requests but snapshots | 1.19 million | competition for places, the snapshot handshake, actions and heartbeats, expiry under connections, disconnection at every point |
| `relay_owner` | 3 connections, 3 places, kick and revocation, no clock | 4.3 million | nobody is forgotten, the owner is not put out |
| `progress` | relay: 2 connections, all message types, TTL 1, clock to 1; client: 2 addresses, 3 sockets, numbered messages; controller: both roles, 3 connections, 1 call, connections lost in phase ready only | 93,450 | what must go on: guests are served or let go unless their board expires, places come back; the client reconnects, with its messages in order; sessions return, the owner keeps the board |
| `relay_revoke` | 3 connections | counterexample | section 6 |
| `sync_sessions` | both roles, 3 connections, 2 calls, 2 realtime messages, storage that may fail | 3.1 million | sessions, locks, queues, order |
| `sync_handshake` | a guest, 3 connections | counterexample | section 6 |
| `whiteboard` | board: 3 elements, 2 other actors with 10 actions, history of 2, batches of 2, a stroke of 3 points, 4 turns; files: 2 boards, 7 texts, 4 steps; picture: 90 figures, 2 at a time; page: 2 codes; end to end: an owner and 2 guests with 1 edit each and 2 sessions, errors and expiry | 1.96 million | actions, history, selection, strokes, restoring; files and storage; pictures; the page; edits that arrive |
| `board_undo` | the board of `whiteboard` alone, 3 turns | counterexample | section 6 |
| `collab_edits` | an owner and 2 guests, 1 edit each | counterexample | section 6 |
| `participants_panels` | an owner and 2 guests | counterexample | section 6 |
| `handshake` | an owner and 2 guests | counterexample | section 6 |

Parts that share no state in the models are checked in one run. The invariants
that are proved inductive are checked as such (`StoreInv`, `RelayInv`, `PanelsInv`, `SocketInv`, `SyncInv`);
`WhiteboardInv` puts together what holds of the parts of its run.

Why the bounds are enough to be interesting:

- *Store.* Two boards and two codes let a code be reused by another board after
  deletion; three actors compete for two places; the clock goes past TTL plus lag,
  so that a board lives, is nearly expired, and is expired beyond any late reading.
- *Relay.* With three connections an owner, a guest and another guest are in
  the relay at once; two places make them compete; two guests are in two stages
  of the same handshake. `relay_guests` and `relay_owner` split the message types
  because all of them with three connections are out of reach; `progress` has
  all types on two connections. Connections are symmetric in the runs without
  liveness.
- *Client and controller.* Three sockets are two failures: a lost connection
  whose replacement is lost as well. `FailuresLeft` keeps the last socket open:
  "finitely many failures" of the liveness properties. Two user calls are a
  session and another one, or a disconnection. Two realtime messages can be
  swapped or doubled.
- *Board.* A turn is an edit, an undo or redo, an action of another user, a load
  or a store; the steps of the pipeline come on top. Four turns are enough for two
  checkpoints, an undo and another checkpoint with a history of two, for
  `undo.apply` with a count and a redo after it, and for apply, store,
  restore, apply again. Actions of others come in any order and any of them may
  never come: delay, loss and duplication of messages. The boards that replace this one are
  one with somebody's shape, and one with an own stroke of two points, which comes back
  once they have been drawn.
- *Rate limits.* Two windows and a piece of a third fit into the time, so that a
  burst falls on the edge of two windows, with a reading from before it.
- *Files.* Four steps are an edit, a session, a file or storage, and the next one:
  enough to store as an owner, come back as a guest and restore; the texts are one
  of each kind that the reader tells apart.
- *Picture.* Bounds are the hull of the bounds of the elements, so that two
  elements already make one's bounds another one's problem; every shape comes
  with both signs of its width, in every rotation, on both sides of the origin.
- *End to end.* Two guests, since the owner's edits and one guest's edits behave
  differently; one edit of each suffices for an edit to overtake a snapshot; two
  sessions of a guest let something of the first arrive in the second. The guests of
  this part are symmetric. The run takes about two and a half minutes.

- *Panels and handshake.* Two guests suffice for one to come or go in the middle of
  the other's joining, and for one guest's error to hit the next one's request. The
  versions are one the relay refuses and one it takes.
- *Settings.* 33 seconds of two ticks wrap to a small positive duration in a word
  of 64, the other numbers are below, at and above what is refused.

A deadlock is an error in the runs of `Relay`, which stops only when every connection is
gone (`Finished`). The other runs are without that check: users may stop, the bounds
end every behaviour, and a process that has ended does nothing more.

## 4. Fairness

- *Relay* (`FairSpec`): each goroutine goes on with the handler it is in
  (`Continue`), a snapshot timer fires and a goroutine it started closes its
  connection (`SnapshotTimeout`, `TimeoutClose`): weak fairness for each
  connection, which the Go scheduler and `time.AfterFunc` give. Nothing is assumed of
  clients: they may never send, answer or close.
- *Socket client and controller*: the timer fires, a socket that is connecting opens
  as long as the network does not fail it, a socket that is closing closes, the
  messages the relay has sent are delivered, and (controller) the relay reads its
  connections and resolves each join, which the same run shows of the relay.
  Weak fairness suffices everywhere. The user owes nothing.
- The three parts of `progress` keep the fairness they have alone: nothing is under way
  in a part that does not move, and it is owed no step.
- `SessionReturns` is checked with `DropsOnlyWhenReady`: it does not hold without
  it (section 6, `sync_handshake`).

## 5. Proofs

All theorems hold for every value of the constants under the named assumptions
of the modules (numbers are naturals, the markers for "none" are not members
of the sets they stand beside).

**RoomStoreProofs.** The inductive invariant is

    StoreInv == TypeOK /\ IndexInverse /\ RosterConsistent /\ OrderWithinCapacity

`RosterConsistent` needs nothing else, but the capacity does: the code counts the
list (`OrderWithinCapacity`) and the promise is about the set, which has the
same size only because the list has no duplicates. `IndexInverse` is needed for
deletion: `deleteBoardLocked` removes the code that the record names, and that
removes no other board's code only if the maps are inverse. A step is
decomposed by operation, and an operation by what it does to the maps: nothing,
one record updated (`StoreInvUpdate`), one board deleted (`StoreInvDelete`), a
board created. The action properties go through a classification of what any
step may do to one board (`EveryBoardStep`: it stays as it is, is deleted when
expired, is created, or is rewritten with a recent activity); `ActivityKept` and `ExpiredForGood`
need in addition that no recorded activity lies in the future (`ActivityNotAhead`).

**SocketClientProofs.** The inductive invariant is

    SocketInv == TypeOK /\ CurrentIsWanted /\ OneLiveSocket /\ KeepsTrying
                        /\ NothingWaitsWhileOpen /\ StatusIsTrue

No conjunct is inductive alone. `TimerFires` overwrites the current socket without
closing it: `OneLiveSocket` holds because a running timer means there is none
(`KeepsTrying`). `KeepsTrying` needs `CurrentIsWanted`, since `onclose` restarts the timer
only while an address is wanted. `NothingWaitsWhileOpen` needs `OneLiveSocket` for
for the moment a socket opens.

All of it but `KeepsTrying` is `LinkInv`, which is inductive by itself with `TimerIsNeeded`, the half
of `KeepsTrying` that says when the timer may run. It is what is left when the callback
throws and the client gives up (`ThrowKeepsLink`), and what the controller's proof builds on.

**WhiteboardProofs.** The inductive invariant is

    BoardInv == EditorInv /\ HistoryInv /\ TrackingInv /\ StorageInv
    StoreInv == BoardInv /\ CountedInv

`SelectionExists` is not inductive: undo and redo bring back whole editor states, so
every state on either stack must select only what it shows (`SoundEditors`). The
history limit is on both stacks together (`HistoryBounded`), since undo and redo move
states from one to the other without cutting; only a new checkpoint cuts, and it
empties the redo stack. `AppliedOnce` needs that an action which has changed the board is in
the log (`CountedInv`), and `AppliedInOrder` that its number is no higher than the last one
remembered of its author; loading a board starts both anew. `undo.apply` with a count
moves that many states in one step (`Steps`, `Passed`), so that the proof needs no induction
over the code's loop.

`EditorAlwaysSound` puts the two promises about the editor together as the run checks them.

**BoardsProofs.** Of the rate limiter: `RateInv` ties each window's start and count to the history of
admitted requests: those of the present window are as many as the count says, and
those of the one before, which may overlap it by the age of late readings, no more
than the limit. `BurstsAreBounded` then is arithmetic: a stretch of time shorter than
a window less the delay touches at most two windows. `RefusalsHaveCause` needs of
the same invariant that a full count was filled within the window.

Of the settings, `LimitsInForce`, for any size of a word: what is enforced is what is announced and what the operator
has set, at every point of the process (`LimitsAlwaysInForce`). Of the contract,
`UnderstandEachOther`, for any ids and texts: whatever one program sends, the other
neither refuses for its form nor passes over (`AlwaysUnderstood`).

**WhiteboardProofs, the pipeline.** `PipelineSpec => Spec`: with the pipeline's variables left out, each
step is a step of the store or a stutter. It takes only that ids and numbers of the
pipeline are the user's own (`PipelineInv`). The store's theorems then hold under the
pipeline (`PromisesWhileDrawing`).

`PointsAreSent` needs more than the board that is shown, because undo, redo and storage bring
back older ones. The inductive invariant is

    DrawInv == PipelineInv /\ StoreInv /\ SentInv

`SentInv` says of the present board, of every state on either stack and of the stored board that
the user's strokes show reported points only, in the order of drawing. Reported is
what an action carries or `pendingPoints` holds (`Reported`). No step takes a point back
(`PointsGrow`): points wait only during a stroke, so that `beginStroke`, which empties
`pendingPoints`, drops none. The next point is higher than all reported ones, hence than
all on the board (`NextIsHigher`). That a board from elsewhere keeps `SentInv` (`LoadKeepsSent`) is where the
points reported are all points drawn: whatever part of an own stroke comes back
(`MayReturn`, for any `Snapshots`), its points are in actions or wait. Nobody else
draws on the user's strokes (`PipelineAssumption`).

**WhiteboardProofs, files and picture.** `StorageReturns` is inductive with the types (`FilesInv`); a guest's
board cannot take the place of what the owner has stored since only owners write (`CanPersist`).
`BoardsTravel` follows from the types alone. `PictureHoldsBoard` is geometry: a hull holds its
boxes (`HullHolds`), nothing is painted further from an element's bounds than the padding
(`PaintedNearBounds`), and the picture holds the hull with the padding around it
(`PictureHoldsBounds`), with `SceneAssumption` for the types of elements. That finite sets of
numbers have a largest member would be an induction; instead it comes from the
well-foundedness of the strict subsets of a finite set (`LargestIsThere`).

**WhiteboardProofs, the page.** The inductive invariant is `PageInv`: the session is none, an owner's or
a guest's, of the shapes `IsOwned` and `IsJoined`; the landing has no session and no panel; at most one
panel is open; and the page is connected when it shows a board. The two shapes carry the argument.
`shownParticipants` falls back to the sample list when the session's own is empty. A kick filters what is
shown, which leaves the owner alone on the list; the owner's row cannot be kicked, so that the list is never
empty and the fallback never brings back who was kicked.
The five lists that this leaves are computed one by one (`Rosters`, `ListsWithout`). From `PageInv` follow
`ShellSound` (`PageAlwaysAgrees`) and, step by step, `KickedStayOut` and `BoardOpensFresh`
(`PageAlwaysSound`).

**WhiteboardProofs and BoardsProofs, the compositions.** A run of several parts moves one of them; under
its specification every part keeps to its own (`PartsKeepToThemselves`, `BoardPartsKeepToThemselves`), since
the others leave its variables alone. That is two lemmas; with them what is proved of each part is a
theorem of the run:
`WhiteboardAlwaysSound` (`WhiteboardInv`), `WhiteboardKeepsPromises` and `BoardsKeepPromises`.

**CollabProofs.** The inductive invariant is

    CollabInv == CollabTypeOK /\ HandshakeInv /\ PastInv /\ OneSnapshotInv
                              /\ OwnerInv /\ DueInv

The argument follows an edit. `OwnerInv`: an edit that somebody who is ready sees is on the
owner's board, on its way there (`ReachesOwner`), still in its author's connection, or its
author is about to learn from an error that it is not ready any more (`IsRefused`); the relay
writes every guest's action to the owner, whoever else is on the list, and a snapshot
holds nothing that the owner has not. `DueInv`: an edit that is due to a guest that has the
board open (`Opened`: ready, or after an error) is on
its board, unread by the relay, being written to it, or in its queue; an edit that the
relay refuses is due no more. That survives a
snapshot, which replaces the board, only because an edit of the owner is in every
snapshot under way or comes behind it, at each of three places in turn
(`CoversUnread`, `CoversForwarded`, `CoversInbox`), and because no snapshot comes twice
(`OneSnapshotInv`): the relay takes the pending request off with the first. A snapshot for
an earlier session of the same guest is told apart by its actor id (`PastInv`).
Messages are followed from origin to fate in lemmas of their own (`UnreadOrigin`,
`InboxOrigin`, `TaskOrigin`; `UnreadFate`, `RelayedFate`, `InboxFate`, `BoardFate`), so that the steps
of the last two conjuncts need not go through the actions again. When all has
arrived, every way but the board is empty: that is `OwnerHasEverything` and `EditsArrive`.

**BoardsProofs, the panels.** The inductive invariant is

    PanelsInv == ParticipantsTypeOK /\ OwnerHears /\ DeparturesAreTrue /\ StoreOrders /\ PanelHasRoll

`OwnerHears` follows an arrival and a departure of one guest to the owner: shown, in the
queue or still to be written, the departure always behind the arrival. `StoreOrders` says
that of two guests inside, `JoinBoard` returned one to the other; `PanelHasRoll`, that a panel
keeps who it was told of until a departure, and by `DeparturesAreTrue` that one is true.
When all has arrived, the first gives `OwnerSeesEverybody` and the others `OneOfTwoSees`.

**BoardsProofs, the snapshot handshake.** The inductive invariant is

    HandshakeInv == HandshakeTypeOK /\ GuestsInv /\ ServingInv /\ VersionsInv /\ ErrorsHaveCause

with `GuestsInv == \A g \in Newcomers : StageOf(g) /\ RequestOf(g) /\ LetInOf(g) /\ AwaitedOf(g)`. The argument
is about `RequestOf`: a guest has one request or one snapshot under way at a time, and
then it is still on the relay's list or has gone (`IsOpen`). The only step that ends that while
the guest is there is `TakeSnapshot` with that very snapshot (`OpenMoves`), and since there was one,
none is left. So an answer that the relay refuses is for somebody who has gone, or
the board has expired: `ErrorsHaveCause`. `ServingInv` keeps this between the four sections of
`handleBoardSnapshot`. `LetInOf` says that a guest on the list has no snapshot, neither on its board nor
under way to it, which is `LetInOnce`; `AwaitedOf` follows the acknowledgement back to the
owner (`TargetsAreAwaited`). As in `CollabProofs`, origins and fates of messages have lemmas of their
own. TLC has found `HandshakeInv` to hold with two guests.

**RelayProofs.** The inductive invariant is

    RelayInv == TypeOK /\ Store!StoreInv /\ SessionsAgree /\ RolesKept /\ PlacesAgree /\ MapsBacked
                /\ OwnerEntryKept /\ OnlyGuests /\ NothingBeforeAsking

Its parts need each other because a connection is in three places that are never
updated together: the store's list, the router's maps and its own goroutine.
`PlacesAgree` says which of them hold a connection at each program counter, and so
that nobody is on a board who has left (`NoGhostParticipants`); `MapsBacked` that an entry of a
map has a goroutine that will take it out; `SessionsAgree` and `RolesKept` that a session is
the one the store gave; `OwnerEntryKept` that the owner is in `boardOwnerByBoard` as long as it
is connected. Some fifty actions are grouped by what they do to these places; the
store's own steps are taken from `RoomStoreProofs`, whose theorems hold of the instance.

Three more promises follow the life of one snapshot request (`OneOutcome`,
`NobodyForgotten`, `NoWaitForAbsentOwner`): it is put on the list once, whoever takes it off
owes the guest an answer, and after the owner's section that fails its guests only requests
remain whose own handler will notice. `OwnerNotPutOut` is about disconnect reasons:
they are set on others only.

An earlier version of the model could not be proved: it let a `session.create` whose
reply cannot be written leave as a guest would. The code's disconnect handler knows it as the owner; the
model now does (`SessionCreate`).

**SyncControllerProofs.** The inductive invariant is

    SyncInv == TypeOK /\ Client!LinkInv /\ SocketsInOrder /\ RepliesAreTrue /\ ReadyIsWhole
               /\ HandshakeIsAnswered /\ OpenGuestHasSession /\ NumbersAreUsed

and `RealtimeInOrder` with it. Every step is one operation of the socket client
(`ControllerMovesClient`), so that the client's lemmas give `LinkInv`; a callback that throws is one
of them. `ReadyIsWhole` says that the controller, the client and the relay agree whenever the
phase is ready. It needs `RepliesAreTrue` (a `session.created` under way means that this
connection was attached as an owner) and leads, by `HandshakeIsAnswered`, to
`OpenGuestHasSession`: a guest whose connection is lost has its flag down, so that
`handleReconnectStart` does not return before it locks the editing. That is `GuestEditsOnSnapshot`.

The order of messages does not need the some thirty actions either: each of them is
one of six kinds of `FlowStep` (`Flows`), such as a message held back, one added behind all that the
client was given, or the queue written to the socket that opened. They keep
`RealtimeInOrder` and lose nothing (`AcceptedIsKept`), where `SocketsInOrder` puts the socket that
opens behind all earlier ones, and `ReadyIsWhole` rules out that a direct send overtakes
what is held back.

`OwnerKeepsBoard` holds if storage takes every write (`~StorageFails`). An owner that is coming back
(`OwnerReturns`) has its board in storage, as shown, under the board of the session before
(`BoardIsStored`). Remote edits are not stored, so this needs that none arrives before
the new session does: `AnswerComesFirst`, the order of what the relay sends on a connection.

What the proof found: `OwnerKeepsBoard` used to say that a step into a session as an owner loses
nothing. With three calls of the user that is false: whoever was a guest on another board in
between and calls `connectOwnerSession` on the same connection, then reconnects, gets the stored board in place of the guest's.
The property now speaks of steps of an owner (section 7).

The controller also implements what the client's specification allows its user: if storage takes every
write, `Spec => Client!Spec` (`ControllerKeepsToClient`). Every action of the controller is one operation of
the client or leaves it alone (`ControllerOperatesClient`); what a handler sends from `onStatusChange` is the batch
of messages of that operation. Only a callback that throws is none, and it needs storage that throws.
`KeepsTrying`, which `LinkInv` leaves out, then holds under the controller too (`ControllerNeverGivesUp`).

**ProgressProofs.** `AcceptedInOrder` is about `History`, the messages written to all sockets, one socket after
the other, followed by the queue. `FlattenSeq` is a function that recurs over the sockets, so what
it does to a sequence that grows in one place needs an induction; that one is over
`1 .. MaxSockets` with a set in the place of the property (`StepByStep`), from the well-foundedness of
the strict subsets of a finite set. It gives `AppendedToOne`: what is added to one sequence, behind which
there are only empty ones, is added to them all. The client writes to its current socket only, and that one is
the newest (`NewestIsCurrent`, inductive with `SocketInv`: the timer and `connect` create a socket behind
all others). A step then sends at the end of `History` - directly when the socket is open, as then nothing
waits (`NothingWaitsWhileOpen`), else behind the queue - or moves the queue to the new socket, which changes nothing
(`StepAccepts`). Hence `NothingLostNorReordered`, for any messages and any number of sockets.

A behaviour of `MCProgress` has one part that moves (`OnePartMoves`). With the client alone it is one
of `SocketClient`; else it is one of `SyncController` (`ControllerOrNot`), whose theorems hold of the instance.
So `SocketInv` and `OwnerKeepsBoard` hold in every behaviour of the run (`ClientAlwaysSound`,
`OwnersBoardComesBack`). `ProgressAssumption` says what the run gives its parts: the controller's address and
messages are among the client's, and storage takes every write (`MCSyncController` has storage that throws).

Only model-checked: the liveness properties (`GuestsServed`, `PlacesGivenBack`, `Reconnects`, `SessionReturns`),
since the prover has no rules for fairness or ENABLED. Every invariant and every action property of a
passing run is stated by a theorem.

## 6. Where code and documentation disagree

- `relay_revoke`: a guest between `JoinBoard` and `registerConnection` when the code
  is revoked stays on the board (`router.go:1035`; `src/README.md:50`).
- `sync_handshake`: a connection lost before its handshake is answered is replaced
  by one without a handshake, on which the controller waits for ever
  (`sync-controller.svelte.ts:313`; `src/doc/tasks.md:70`).
- `board_undo`: an undo takes back what others have drawn since the user's last edit
  (`board-store.svelte.ts:408`; `src/doc/tasks.md:58`).
- `collab_edits`: an action of a guest that reaches a new guest before the owner's
  snapshot, and the owner after it has made that snapshot, is on the board of
  everybody but the new guest (`router.go:1066`; `src/README.md:186`, `:188`).
  `EditsArrive` says what does hold: with the owner's own edits it cannot happen,
  nor with those made once the guest was ready.
- `participants_panels`: a guest that comes or goes while another guest's session is
  between `JoinBoard` and its `session.joined` is missing from that guest's panel, or stays
  in it (`router.go:339`; `src/doc/tasks.md:29`, `:79`). `OneOfTwoSees` says what does hold.
- `handshake`: a guest that times out before the owner's snapshot arrives makes the
  relay answer the owner with an error. That ends the owner's phase ready for good, and
  its controller passes over the requests for all later guests
  (`sync-controller.svelte.ts:453` and `:536`, `router.go:689`; `src/README.md:186`, `:187`).

## 7. What else the models show

Behaviour of the code that a reader of the properties should know. Each item is
part of a model; no run is devoted to it.

- When the owner goes, guests that still wait for their snapshot are let go, and
  guests that have it stay connected (compare `src/README.md:50` and `:195`).
- A kick or a revocation that marks a connection whose disconnect handler has taken
  its reason already leaves an entry in `disconnectReasonByConn` for ever
  (`router.go:883`). `PruneExpired` is never called (`store.go:292`): an expired board
  stays until somebody asks for it. The rate limiter keeps an entry for every address
  and code it ever saw.
- A board that expires under its connections is deleted at the next request that
  meets it; the connections stay open and get `board_unavailable`.
- If the snapshot's answer meets a board that has just expired, the guest's request
  is already off the map and nobody tells the guest (the exception in
  `NobodyForgotten`).
- When the first connection fails before it opens, the handshake is in the client's
  queue already and `handleReconnectStart` adds a second one; the relay answers the
  second with an error, which ends phase ready.
- An edit made between the beginning of a socket's closing and `onclose` is queued
  before the next handshake; the relay refuses it as coming from nobody.
- A guest's editing is locked by the role of the session it has, not of the one it
  asks for: until `session.joined` arrives an edit of a new guest is accepted.
- A user who was an owner, then a guest, then an owner again gets, when that session
  reconnects, the board that was stored for it: edits that the guest's board showed go.
- Local storage that throws inside `onStatusChange` leaves no reconnect timer; one
  that throws inside `session.created` leaves a restored board in a session that
  never gets ready.
- Any `error` message, also about a single message, ends phase ready until the user
  connects again (section 6, `handshake`, is the case in which nobody did anything wrong).
- The client of a guest that was kicked reconnects and joins again with the same
  code: only a revocation keeps it out.
- The frontend never sends `heartbeat.ping`. A user who only watches is cut off after
  twice the heartbeat interval, and an owner that reconnects gets a new board with a
  new code, on which its guests are not.
- The controller never sends `participant.kick` or `board.code.revoke` either.
- A number of seconds that overflows a `time.Duration` may wrap to a positive one and is
  then accepted (`config.go:57`, `:58`); `LimitsInForce` says it of all that fit.
- The page has 4 places and codes of 8 characters whatever the relay is set to.
- `trim` and `TrimSpace` disagree about U+0085 and U+FEFF.
- An edit written to a socket that then fails is lost: nothing acknowledges or
  repeats it.
- A snapshot or an import that arrives during a stroke ends it in the store but not
  in the pipeline: `endStroke` is refused from then on, and no stroke can be begun
  until a new pipeline is made.
- `undo.apply`, `redo.apply`, `selection.update` and `viewport.update` of others work on
  this user's stacks, selection and viewport.
- If the snapshot was stored and the log was not, a restored board does not know
  actions it shows; those that are not made harmless by the element being there
  already are applied again.
- Two users who change one element at the same time end up with different elements:
  each applies its own change first and the other's after it, and no action that the
  page sends carries an `object_version` that would decide.
- A stroke that was begun before a guest's snapshot has no active stroke in the
  guest's store: its remaining points are not applied there.
- The board of an owner that was never loaded from anywhere has version 0. Its own
  export is then refused by the import (`board-json.ts:193`, compare
  `board-json.spec.ts:95` and `src/doc/tasks.md:59`); local storage takes 0 and the
  relay gets 1 (`Protocol`).
- Rectangles, diamonds, lines and arrows that are rotated may be cut off in a
  picture: the bounds turn them about their centre, Konva turns a `Rect` about its
  corner and a `Line`, whose place is in its points, about the origin. Lines and arrows
  drawn to the left or upwards are painted along the other diagonal or backwards
  (`normalizeRectForRendering`).
- The first brush of an owner (8) is none of the presets offered.
- `copyJoinCode` reads the code again after the clipboard has answered
  (`+page.svelte:217`): after a regeneration in between it reports a code that it has
  not copied.
- The join form and its error survive the full board and the way back to the
  landing. `overlayState` is never read; `showReconnectOverlay` is never called.

## 8. What is not modelled

- The user interface components (`lib/components/ui`): about 10,100 of the
  repository's 15,200 lines of code are a vendored kit of presentational components,
  in which there is no state of the program.
- Rendering, fonts, colours and layout; the wording of messages; logging; the index
  files.
- `lastError`, `lastTransitionAt` and the counters of a snapshot: shown or carried, read by no
  decision.
- The data of an action on the wire (`Protocol`) and the fields of an element in a file
  (`BoardFiles`): an element is well formed or it is not.
- Order of elements, viewport, time stamps; the geometry of elements but for their
  extent in a picture.
- The reconnection of an owner in `Collab` (`SyncController` has it): there its connection
  lasts. An error for a message that changes no board is one step of the client there,
  not a message in a queue. Errors for messages of the wrong form, or of
  somebody who is not attached, are in neither `Collab` nor `SnapshotHandshake`.
- Two detailed board stores side by side: `Collab` takes an edit for an element of its
  own, so that concurrent changes of one element and their versions are not in it
  (section 7 says what happens to them).
- The delay of the reconnect timer and the read deadline of the relay: a timer fires
  some time, a connection may be lost at any time.
- `resetClientSequence` and `showReconnectOverlay`, which nothing calls.

## 9. Plan

Done: the modules of section 2 and the proofs of section 5. What would come next:

1. `Relay` shown to implement its part of `SnapshotHandshake` under a refinement mapping per
   guest.
2. Object versions of two detailed stores, once the page sends them.
3. The heartbeat and the read deadline, with the reconnection they cause.
