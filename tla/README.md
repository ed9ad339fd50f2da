# TLA+ models of my-spring-boot

The repository is a Spring Boot demonstration application: a web server with
websocket endpoints, an in-memory student table, an upload directory, an MQTT
connection, several smaller services, and the pages that use them. The pages bring
their framework along as source, `src/main/webapp/js/vue.global.js`, which is nearly
all of the implementation's lines. The application's own logic is small; what makes
it hard is that the container runs its handlers in many threads and that the code
shares state between them. The framework runs in one thread, and what makes it hard
is that everything in it calls everything else while it is under way.

The modules in this directory model those parts; TLC checks them on small instances,
and TLAPS proves the central invariants for every value of the constants.

Java paths below are relative to `src/src/main/java/com/hg/hyy/` unless they say
otherwise; a bare line number in a section about Vue is one of `vue.global.js`.

## 1. Inventory

### The application

| component | state | operations | hard behaviour |
|---|---|---|---|
| **Annotation hub** `/annotation.ws`: `websocket/WsAnnotation`, `scheduling/TimerSocketMessage`, `GET /v1/ws` in `controller/VueController` | static copy-on-write set of endpoints, static counter, each endpoint's session | `onOpen`, `onMessage`, `onClose`, `onError`, recursive `broadcast`, `sendInfo`, `sendMessageObj`, `sendMessageString` | one endpoint reached by many threads; two different monitors and one send without any; the catch block closes other people's sessions and calls itself |
| **Chat endpoint** `/endpoint.ws`: `websocket/WsEndpoint` | static set of endpoints | `onOpen`, message handler, `onClose`, `onError`, recursive `broadcast` in each | the same recursion in three kinds of handlers at once |
| **Spring handler** `/spring.ws`: `handlers/MyWebSocketHandler`, `interceptors/WebSocketInterceptor` | static map from user to session | the four callbacks, `sendMessageToUser`, `sendMessageToAllUsers` | two connections of one user; check of `isOpen` and send apart |
| **Student table**: `service/StudentService`, five requests in `VueController` | static `HashMap`, static counter | insert, update, delete, two queries | no lock; counter read twice and incremented non-atomically; check, then act; an answer written from a live view |
| **Heartbeat page**: `src/main/webapp/vue.html` | the current WebSocket, three timers, a lock flag | `initWebSocket`, `reconnect`, `start`, `reset`, four socket handlers | timers that outlive their socket; sockets that are replaced while in use |
| **Upload directory**: `interfaces/impl/FileSystemStorageService`, `controller/UploadController`, the runners in `Application` | files in one directory | `store`, `loadAsResource`, `deleteAll`, `init`, `loadAll` | uploads of one name overlap; requests are served before the runner has cleared the directory |
| **MQTT connection**: `mqtt/MqttPub`, `mqtt/PushCallback`, `config/MqttConfig`, `/v1/mqtt` | static client field, each client's connection and callback | `connect`, `subscribe`, `publish`, `connectionLost` | reconnecting from the library's thread while others read the field |
| **Requests that wait**: Redis chat `/test/redis`, gRPC greeter `/v1/grpc_s`, `/v1/grpc_c`, STOMP greeting `/stomp.ws` | a counter of messages; a server on one port; standard input | publish until a message came back; start and wait for the end; ask on the console and greet; greet after a second | loops and waits that may never end; input closed by every caller while others read it; answers in another order |
| **Sign-in**: `VueController.signIn`, `addNewUser`, `utils/Filestrem` | the user table, three log files | decide over the rows, copy, log | files truncated by concurrent requests |
| **Form login**: `service/SysUserDetailService`, `config/WebSecurityConfig` | one `ArrayList` of authorities for all logins | load a user | an unsynchronised list shared by requests |
| Request filter, local address, Kafka, InfluxDB, RestTemplate, video, speech, token, serialisation, logging helpers, demonstration endpoints, JPA interfaces, configuration, generated protos, other pages | none of their own that several steps share | – | – |

### The Vue runtime (3.0.11)

| component | state | operations | hard behaviour |
|---|---|---|---|
| **Scheduler** (1480–1670) | the queue, its index, the callbacks before and after it, two flags | `queueJob`, `invalidateJob`, `queueCb`, `flushPreFlushCbs`, `flushPostFlushCbs`, `flushJobs` | whatever runs queues, removes, flushes and throws, while loops hold indexes into the queues |
| **Reactivity** (371–1250) | dependency sets, the stack of active effects, the pausing of tracking | `effect`, `stop`, `track`, `trigger`, the proxy handlers, `computed` | a write runs effects in the middle of the writer, which read, write and stop again |
| **Watchers, component updates** (3249–3400, 5453–5600, 6009–6060) | each watcher's old value, each instance's effect | `doWatch`, `setupRenderEffect`, `updateComponentPreRender`, `unmountComponent` | props reach a child by its parent's update, its own may be queued as well |
| **Diff of children** (5607–5960, 6146) | the container | `patchChildren`, `patchKeyedChildren`, `patchUnkeyedChildren`, `getSequence` | indexes, anchors, moved fragments |
| **Compiled templates** (5096–5400, the compiler from 10500 on) | hoisted nodes, blocks | transforms, `hoistStatic`, `openBlock`, `patchElement`, `patchBlockChildren` | the patch trusts flags that the compiler made |
| **Suspense** (2367–2730) | pending and active branch, a count, a timer | `patchSuspense`, `resolve`, `fallback`, `registerDep`, `unmount` | late answers, other contents meanwhile |
| **Asynchronous components** (4708–4850) | one pending request, one resolved component | `load`, `retry`, the wrappers | requests that overtake each other |
| **KeepAlive** (3752–3990) | cache, order of keys, the hidden container | render, `pruneCache`, `activate`, `deactivate` | the cache is kept by a hook that runs later |
| **Transitions** (3439–3750) | what enters, what leaves | `BaseTransition`, `resolveTransitionHooks`, `getLeavingNodesForType` | hooks that end later than the next render |
| Teleport, hydration, hot replacement, slots, the parser, the options API, v-model, styles and events, TransitionGroup, devtools | – | – | – |

### Interactions

* The pages connect to the three websocket endpoints; `vue.html` keeps its
  connection to the hub alive with heartbeats, which `WsAnnotation.onMessage`
  sends on to every member.
* The timer and the request `GET /v1/ws` call the hub's static methods from
  threads of their own. The container calls `onClose` of a session that some other
  thread's `broadcast` has closed, beside whatever handler still runs for it.
* The Paho library calls `PushCallback.connectionLost` in a thread of its own,
  which goes through the same `MqttPub.connect` as the start of the application.
* `Application.init` clears the upload directory through the storage service that
  `UploadController` already uses, after another runner has fetched a quote.
* Otherwise the components of the application share nothing but the web server's
  thread pool.
* In Vue, a write goes through reactivity to the schedulers of effects, which put
  component updates and watchers into the scheduler's queues; an update renders a
  template into vnodes and patches them against those on the page; patching mounts,
  updates and unmounts components, which queue hooks. Suspense and KeepAlive are
  called by the renderer for their vnodes and redirect hooks and removals;
  transitions delay them.

### What makes each correct

* *Hub*: once nothing runs, the set is the open sessions and the counter their
  number; a text is lost or a join fails only for a reason that can be named;
  broadcasts return; a closed endpoint leaves the set for good.
* *Chat*: the same for its set; a broadcast fails only over a closed member.
* *Spring handler*: no session in the map after its end has been handled, a
  connected user is in the map, a message to all breaks off only for a reason.
* *Students*: while one request at a time adds, a table that never issues an id twice and
  an insert that is answered with 1 adds a row; an answer has the ids of one moment, with
  rows of that moment or later ones.
* *Page*: it never gets stuck behind its lock, leaves a silent connection, and
  holds one connection at a time.
* *Uploads*: what was stored stays; what an earlier run left goes; a download that
  nothing disturbs is whole.
* *MQTT*: a reported loss leads to a connection that is subscribed; older clients
  are not left connected.
* *Requests that wait*: all waits end but the one that lasts as long as its server.
* *Sign-in, form login*: records survive; nobody gets in undeservedly; a login that
  meets no other has all its roles.
* *Vue*: nothing queued is skipped, run out of order or left behind; when nothing
  is under way the page is what state and template say, and no effect, watcher,
  branch, cached or leaving node is left with old news.

The hazards behind these, each at its line, are in `PROJECT.json`.

## 2. Modules

| module | models | abstracted |
|---|---|---|
| `WsContainer` | Tomcat's session and blocking `sendText` (external) | texts are not distinguished |
| `WsAnnotation` | the hub, the timer, `GET /v1/ws` | texts, JSON, logging |
| `WsEndpoint` | the chat endpoint | texts, HTML filtering |
| `MyWebSocketHandler` | the Spring handler with its handshake | texts; SockJS is taken as a websocket |
| `StudentService` | inserts, updates and deletes, access by access | wording of answers, all fields but id and name |
| `StudentQueries` | the two queries beside them | the JSON writer is an iterator that writes rows |
| `StudentTable` | what the table promises (abstract) | – |
| `VueClient` | the script of `vue.html` | time, shown messages, leaving the page |
| `FileSystemStorageService` | `store`, downloads, the runner that clears | contents: a file is a number of chunks |
| `MqttPub` | connecting, reconnecting, subscribing, publishing | messages and topics |
| `WebRequests` | Redis, gRPC and STOMP requests that wait | payloads, the RPC stack, the broker |
| `SignIn` | `signIn`, `addNewUser` and the files they write | wording of a line, time stamps |
| `SysUserDetailService` | `loadUserByUsername` over a shared `ArrayList` | passwords, the filter chain |
| `VueScheduler` | the scheduler, with tasks that do what they like | what a task computes |
| `VueUpdates` | a root, its child, their watchers and hooks, on the scheduler | vnodes, slots, deep watching |
| `VueReactivity` | `effect`, `track`, `trigger`, handlers, `computed` | readonly, shallow and nested proxies |
| `VueChildren` | `patchChildren` and what it does to the container | what a child's own patch does |
| `VueTemplates` | compiler flags and hoisting, blocks, the patch that trusts them | the parser, expressions, slots, events |
| `VueSuspense` | the boundary | what its branches contain but for asynchronous children |
| `VueAsyncComponent` | `defineAsyncComponent` and its wrappers | the component itself, delays |
| `VueKeepAlive` | the cache, activation | the children but for type, key and life |
| `VueTransition` | `BaseTransition` | CSS classes, time |
| `MCServices`, `MCConnections`, `MCWebSockets`, `MCVueUpdates`, `MCVueRendering` | compositions for TLC, see below | – |
| `MCWsAnnotation`, `MCVueScheduler` | instances for TLC | – |
| `*Proofs` | proofs (section 5): of one module, or of several parts of the composition they are named after | – |

`WsAnnotation`, `WsEndpoint` and `MyWebSocketHandler` EXTEND `WsContainer`;
`StudentService` instantiates `StudentTable`; `StudentQueries` EXTENDS
`StudentService`, whose writes it interleaves with its reads; `VueUpdates`
instantiates `VueScheduler` on its own variables, so that components run on the very
scheduler that is checked alone with arbitrary tasks.

A composition `MC…` holds parts *side by side*: its initial state picks one, whose
steps are taken, while the variables of the others keep one arbitrary initial value.
It is a union of separate state spaces and claims nothing about parts that run
together: they share no state in the code either. What does interact is composed
in the modules themselves.

| composition | parts |
|---|---|
| `MCWebSockets` | Spring handler, chat |
| `MCServices` | students, their queries, uploads, sign-in, form login |
| `MCConnections` | page, MQTT, requests that wait |
| `MCVueUpdates` | scheduler, component updates, reactivity, asynchronous components, KeepAlive |
| `MCVueRendering` | diff, templates, Suspense, transitions |

### WsContainer

`session[c]` is the life of the `Session` of connection `c`, `broken` the
connections that are dead without anybody knowing, `sending` the `sendText` calls
in progress. A send is two steps, `StartText` and `EndText`. Tomcat refuses
(`IllegalStateException`) a text on a closed session and one on a session to which
a thread is already writing; a started send ends with an `IOException` only if the
connection broke or was closed. Tomcat closes the session when a write finds the
connection dead, in whichever thread: `WriteNotices`.

### WsAnnotation

`webSocketSet` and `onlineCount` are the static fields. `openPc[c]` is the
program counter of `onOpen(c)`: registered, counted, before `broadcast`, in it,
in its catch block (`drop`, `announce`), in the final `sendMessageObj`, left by an
exception. `frames[c]` is the stack of nested broadcasts, each with the clients of
its snapshot it has still to visit; a loop that has nothing left is not kept, since
returning changes nothing. `victim[c]` is the catch block's client. `closePc[c]`
is `onClose(c)`, and `todo[p]` the rest of the snapshot of a pusher: the timer, the
request, or `onMessage`. The two monitors are derived from where the writers stand:
`broadcast` holds the *endpoint*, `sendMessageObj` the *session*, and
`sendMessageString` neither. The order in which a loop visits its members is open.

### WsEndpoint

Each handler thread (`onOpen`, `onMessage`, `onClose` of a client) has its own
`pc`, `frames` and `victim`, as each of them broadcasts.

### MyWebSocketHandler

`user[c]` is the attribute the interceptor sets, `userMap` the map, `openPc`,
`msgPc` and `closePc` the callbacks, `callPc`, `todo` and `target` one call of
`sendMessageToUser` or `sendMessageToAllUsers`. The iterator over the concurrent
map sees every key it had at the beginning and possibly later ones. Spring closes a
session whose callback throws. `Restless` names the users who may connect again
before the end of their earlier connection is handled; the others are *patient*.

### StudentService and StudentQueries

One step is one access to the map or to the counter; `studentId++` is a read and a
write. A `HashMap` operation is one step: three seeds and the few inserts of a run
stay below its first resize, and what a torn `HashMap` does is not modelled.
`Issued` is the refinement mapping of `issued`: the ids below the counter and the
one an insert has put but not yet counted.

`query[q]` is a reader: the existence check and the fetch of one student are two
steps, and the answer of `getAllStudent` is a live view over which the writer of the
answer iterates after the method has returned. Ids come in their order, which is that of the
buckets of a small `HashMap` of integers; the iterator fails once a row has come or
gone since it was made. A row is written with the student that is filed under its id
*then*, and an update replaces a student without the iterator's noticing: an answer can
mix old and new rows. So `AnswersAreOfTheTable` does not claim the table of one moment; it
claims the ids of one moment (`began`) and rows that the table has had since (`had`), which
is that table as long as nothing is updated. `began`, `had`, `changed` and `deletes` are history.

### VueClient

`sock[s]` is the `readyState` of a WebSocket, `websocket` the current one,
`timeoutObj`, `serverTimeoutObj`, `timeoutnum` whether each timer is armed. The
page runs one handler at a time, so a handler is one step. An armed timer may fire
at any time: the delays (5 s, `timeout`) are left out, which allows more orders
than there are. `strayed` is a history variable.

### FileSystemStorageService

A file is named by the upload that made it. `Files.copy(..., REPLACE_EXISTING)`
deletes the name, creates a new file and writes it: three kinds of steps, each of which may
fail with what there is left as it is (`CopyFails`). A
download checks that the name exists, then the framework measures it, opens it and
sends it. `boot` is the start: the quote, the walk that deletes, the creation of
the directory. The file system is POSIX: an open file that is deleted goes on.
`calm`, `early` and `lost` are history.

### MqttPub

Clients are numbered in the order in which they are made. `thread[0]` is the
start, `thread[c]` the library thread that reports the loss of client `c`;
each goes through create, connect, set the callback, read the field again,
subscribe. The broker comes and goes at will.

### WebRequests

`at[r]` is where a request stands. A Redis request publishes and sleeps while the
receiver's counter reads zero; the broker may lose a message, but not each
of an endless number. The first gRPC server that starts has the port, a second start
fails, and `shutdown` is the JVM's hook. `standard` is `System.in`, which
every client reads with a `Scanner` of its own and then closes: one reads at a time, which
takes all that was typed, and the others wait for its monitor. The close does not wait:
a read that is under way then ends with the next line. `greeting` and `topic`
are the STOMP messages in the pool and the answers in the order they left.

### SignIn

A sign-in copies file 1 to file 2, appends a record to file 1, empties and rewrites
file 2, and decides over the rows. Every read, write and
truncation is a step, and a writer writes at its own offset, whatever has become of
the file.

### SysUserDetailService

`ArrayList.add` is five steps (`modCount`, reading and writing the count, the size,
the element, the size), and the copy made for the user iterates with the check of
`modCount`. `alone` and `met` are history, of the other logins a login overlaps with, and
`came`, of who has logged in.

### VueScheduler

The call stack is part of the state: `stack` holds calls of `flushJobs`,
`flushPreFlushCbs`, `flushPostFlushCbs` and tasks, each with the place it has
reached; a step is one pass of a loop or one call. A task may, up to `MaxCalls`,
queue any job or callback, remove a job, flush the callbacks before the queue as a
component update does, flush those after it as `render` does, throw, or
return. `seen` is the `Map` that counts runs, whose limit is `RecursionLimit`
instead of 100. `FindInsertionIndex` is the set of the places where the binary search may
end: one place in a queue that is in order, which the queue is where it is searched
(`JobsAreInOrder`). `Arranged` is what a `Set` or a sort makes of a sequence, each element
as far from the front as there are others before it.

### VueUpdates

A root renders `show` and `x`, and shows a child that is given `x` and renders `y`.
`tracked` is `targetMap` as pairs of source and effect. A write of another value, which
may be one that was there before, runs the schedulers of
the effects that track it, by their flush option; `UpdateBegins` is
the part of `setupRenderEffect` before the render, `next` the `instance.next` of
a child its parent has just rendered, and empty otherwise. Callbacks, hooks and outside
code write; the number of writes is bounded. `newValue` is the local variable of a watcher's
job, one value for each of its calls that has not returned: a sync watcher's job may run
within its own callback. `nested` is history, the watchers that did.

### VueReactivity

The data are an object, an array, a Map or a Set with up to two keys, and the readers
everything that tracks: `get`, `has`, `ownKeys`, searching, `size`, iteration. A running
effect makes one such read, or a write of which the rest is kept in `stack`
while triggered effects run: `push` and `pop` write an element and then the length, with
tracking paused. `view` is history, what each effect has seen; `excused` those that
were running when what they had read was changed, which the code does not run
again unless `allowRecurse` is set, and those that were stopped while they ran, which
goes on and tracks. Computed effects, which unmounting a component stops as well, are not
stopped. `MaxDepth` bounds the depth at which an effect still writes: one that was stopped
while it ran runs itself again by its own writes, which in the code ends with the stack.

### VueChildren

The inputs are two lists of children with types, keys and shapes. A step is one pass
of one of the loops of the diff, numbered as in the code's comments (5.1 the map
of keys, 5.2 patch or unmount, 5.3 move or mount). `dom` is the
container with the nodes of each child; those of a fragment are two anchors and
an item. `getSequence` is written as folds, the way the code builds it, and
`FewestMoves` compares it with a longest increasing subsequence by definition.

### VueTemplates

Templates are trees of elements with static and bound attributes, a bound name, an
object binding and a directive; texts, comments, `v-if` with or without `v-else`, and
`v-for` with and without keys. `code` is what the compiler makes of them: calls with
patch flags, dynamic props, hoists and blocks. Rendering it gives vnodes, `patch` brings
them to the page; a step is one update with any new data. `ShownAll` says
what a template means without compiler or patch: the reference.

### VueSuspense, VueAsyncComponent, VueKeepAlive, VueTransition

The boundary `s` is the record of `createSuspenseBoundary`, with the instances of
asynchronous children it has seen; its methods call each other, so they are operators
from boundary to boundary, and an action is one event: a render, a promise that
settles, the timer, an unmount. A late answer and a timer that find another `pendingId` do
nothing and are no steps. `misled` and `overcounted` are history, see section 4.

A wrapper of an asynchronous component waits for a promise of the request it joined;
promises call back one at a time and follow each other. The loader gives a component,
`undefined`, something that is no component, or an error. The user may retry, fail, or
not answer for as long as it likes.

`k` and `t` are likewise what KeepAlive and BaseTransition know together with what the
renderer does for them; `Post` takes one function from the queue of hooks.
`untidy`, `revived`, `failed`, `missed` and `early` are history, see section 4.

## 3. Runs

Bounds are constants of the instances. No run uses symmetry, as most state
liveness or name particular actors.

| run | question | bounds |
|---|---|---|
| `ws_annotation` | does the hub settle; are texts lost and joins refused only for a cause; do broadcasts return; do closed endpoints leave | 2 connections, the first talks, the request runs |
| `web_sockets` | Spring handler: ghosts, patient users, broken-off messages; chat: does it settle, when is a text refused, do broadcasts return | 2 connections; users u1 (restless), u2 or nobody; one chat message |
| `services` | is the student service a table, do its queries answer with rows it had; uploads, downloads and start; sign-ins; logins | 2 requests of which one adds, 1 reader; 2 uploads, 1 download, 2 names, 2 chunks; 2 sign-ins, 1 stored user; 2 logins |
| `connections` | is the page ever stuck, silent, doubly connected; does the MQTT link settle; do waits end | 3 sockets; 3 MQTT clients, 1 publisher; 2 requests of each kind, 1 pool thread |
| `vue_updates` | is anything queued skipped, disordered or left; is a page, watcher, effect, wrapper or cached child left with old news | see below |
| `vue_rendering` | does the page show what was rendered last, by diff, template, boundary and transition | see below |
| `ws_online_count` *(violation)* | is the counter ever negative | 2 connections |
| `ws_group_send` *(violation)* | does the group message reach open members | 2 connections and the timer |
| `spring_ws_reconnect` *(violation)* | is a connected user in the map | 2 connections of one restless user |
| `students_two_adders` *(violation)* | does every insert add a row | 2 requests that both add |
| `vue_reconnect_open` *(violation)* | does the page reconnect only when not connected | 2 sockets |
| `vue_drains_all` *(violation)* | does a flush leave nothing | 1 parent, 1 child, 1 watcher, 1 hook, 2 that wait |

*Why these are enough.* The hub's conflicts are between a thread and one
other client: register against drop, count against subtract, write against write. With
two, each connection can be the victim of the other's broadcast while its own
`onOpen` or `onClose` runs, a broadcast nests (a member that fails is announced by a
nested one), and both monitors are contended. The proofs remove the bound for the
safety properties of the hub and of the Spring handler. In `services`, an insert
overlaps with an update and a delete, two rows beyond the first insert exist, a
row can be deleted and written again, and a reader meets each of them at each of
its steps; two uploads of one name overlap with each other and with the walk; two
sign-ins and two logins interleave access by access, and a thread logs in again until
the list has `MaxSize` entries. In `connections`, three clients give two losses, the
second of which can come while the thread of the first still subscribes. `MaxClients`
also bounds losses: the last client does not lose its connection.

*`vue_updates`.* A parent, after it a child that may queue itself (and so be there twice), a callback before
and one after the queue cover each pair of kinds; one call per task reaches nested
flushes because tasks queue tasks; with three waiting the queue holds what a loop index
can skip. A limit of recursion of 1 is reached as 100 would be. Two instances of
the child, one after the other, give a late update of one that is gone; four writes are
the fewest for a write in a hook that follows a write in a watcher, and three values let
a state come back to an old one by way of another. Four writes never reach the limit of
updates: TLC finds no state of the components in which `thrown` is set, so the run meets the
hypothesis of the theorems about them (section 5). Two effects nest;
two keys and a length tell index, length and iteration apart, and six calls on the stack
(`MaxDepth`) are a run that writes within a run that writes. Two wrappers share a
request that a second overtakes while a third is asked. Three children, two of them of one
type, and four renders fill a cache of two until it prunes, and bring a pruned child back.

*`vue_rendering`.* Every pair of lists of up to four keyed children, and of three of mixed
sorts with or without keys, one of which may be a fragment: the diff's common prefix and
suffix and a moved, a new and a removed child occur together. Keys that only one list has
are numbered in its order (`Numbered`), since the diff only compares keys: each pair is
taken once instead of once for each renaming. Templates: every sort of
attribute and of child, conditionals and lists within each other, beside siblings and at
the root, under every change between lists of up to two items. Three renders after the
first put a Suspense back to the content it came from while both branches have
children pending, and then to the other one again; with one asynchronous child the properties
also hold for five. The first content has the first of the two types, as types are only
compared. Four renders are enough for a child to come back while its transition still leaves.

`CHECK_DEADLOCK FALSE` stands where a system may stop: all clients have left for
good (`web_sockets`, `ws_online_count`), the requests of a run are answered
(`services`, `connections`), and a page has nothing left to do (`vue_updates`,
`vue_rendering`, `vue_drains_all`).

### Properties

* `HubSettles`, `EndpointSettles`: at rest, the set is exactly the open sessions
  (and the counter its size), however joining, dropping and closing overlapped.
* `SkippedOnlyForUnlockedWriter`: `sendInfo` passes an open member over only
  because someone writes to it without the session's monitor.
* `JoinFailsOnlyForACause`, `RefusedOnlyIfClosed`, `BrokenOffOnlyForACause`: an
  exception leaves a loop over the members only over a closed session or a sender
  with another lock.
* `BroadcastReturns`, `ClosedLeavesForGood`, `ClosedLeavesMap`: liveness.
* `NoGhostInMap`, `PatientUserIsInMap`; `InsertAddsARow`,
  `TableSpec` (refinement), `AnswersAreOfTheTable`.
* `RetryIsArmed`, `OneConnection`, `SilentConnectionIsLeft`, `NeverGivesUp`.
* `StoredIsKept`, `OldFilesGo`, `UndisturbedIsWhole`; `SettledLink`,
  `LossIsMended`; `WaitsAreSettled`, `SignInsAreKept`, `LoginsHaveTheirRoles`.
* `DrainsWhenIdle`, `FlushesInOrder`: nothing is left, skipped or out of order, and every
  flush ends. `NoStaleEffect`, `PageIsCurrent`, `WatchersAreTold`: nobody is left with
  old news. `AsyncIsAnswered`: late answers count for the right request.
  `KeptIsReachable`: nobody is lost in a cache.
* `ChildrenArePatched`, `TemplateIsShown`, `SuspenseResolves`, `TransitionsEnd`: the page
  is what was rendered last, with no more moves than needed, and late answers count for
  the right branch.

A property of a composed run gathers what its module states about one hazard. For
each property there is a wrong variant of a definition, beside that definition and
marked as such, under which the property fails; no action uses them.

### Fairness

Weak fairness, only of what has begun: a thread inside a handler goes on, the
container calls `onClose` for a closed session, an armed timer fires, a
connecting or closing WebSocket comes to an end, a connecting MQTT thread returns,
a sleeping request wakes. The container and the browser schedule every runnable
thread, and `sendText` is bounded by Tomcat's send timeout. Nobody is obliged to
connect, to leave, to talk, to type or to fail, and the MQTT broker need not come
back. Weak fairness suffices for the monitors because who holds one is writing, and
a started write ends. Strong fairness stands once, for the Redis channel: each
publication may be lost, but of endlessly many one arrives. That a request returns
rests on it; it is the channel's promise, not the code's.

In Vue, JavaScript's event loop runs every microtask and what it calls: weak fairness
of the code's own steps (`Proceeds`, `Post`), of promises that
settle (`Settle`, a loader's and its followers' callbacks), and of user hooks that call
`done`. Whatever users do beyond that, write, render, throw, retry, is free.

## 4. What the code does otherwise than it says

Six runs end in a counterexample against a comment of the source:

1. **The counter shows −1** (`OnlineCountIsANumber`; `WsAnnotation.java:28`).
   `onOpen` registers before it counts; a broadcast that drops the client in
   between makes `onClose` subtract first. `HubSettles` shows that it recovers.
2. **A group message misses an open member** (`SendInfoReachesOpenMembers`;
   `WsAnnotation.java:93`). `broadcast` locks the endpoint, `sendMessageObj` the
   session; the container refuses the second of two writes, and that is swallowed.
3. **A connected user is not in the map** (`ConnectedUserIsInMap`;
   `MyWebSocketHandler.java:31`). The late close of the old connection removes the
   new one.
4. **Two inserts, one row** (`InsertAddsARow`; `StudentService.java:24`).
5. **The page reconnects while connected** (`ReconnectsOnlyWhenNotConnected`;
   `vue.html:87`), and leaves the former connection open.
6. **A flush ends with callbacks left** (`DrainsAll`; `vue.global.js:1639-1641`,
   "keep flushing until it drains"). The last test of `flushJobs` looks at the queue and
   at the callbacks after it, not at those before it, and nothing else is scheduled: a
   default watcher of a state that an updated hook writes is told only when something
   else is queued. `WatchersAreTold` allows this case and the one of sync watchers below.

Seen while modelling, not contradicted by any text of the repository or not stated as
a run; where a property had to exclude one, the name in brackets is the variable or
operator that does.

*Application.* An upload that fails after the delete of `Files.copy` has lost the file
stored before: if it fails to create its own, the stored name has none (`lost`), and if it
fails to write it, half of one, which is why `StoredIsKept` asks for *a* file; files stored before the
runner has finished can be deleted by it, and an upload can break its walk off; the
quote that an earlier runner cannot fetch ends the application; a failed MQTT
reconnect is never repeated, and a loss between `connect` and `setCallback` is never
heard of. The list of authorities is never emptied, so that a login is given the roles
of all earlier ones; `LoginsHaveTheirRoles` asks that its own are among them and that no
role comes from anywhere else (`came`). A login that copies while another adds fails (`met`). The
last row of the user table decides a sign-in, so that a stored user may be refused. Every
`/v1/grpc_c` closes `System.in` for all later ones; yet one that has begun to read before
can be greeted as well, and until a further line is typed it stays there with all that have
come after it (`HeldByRead`).

*Scheduler and components.* A callback before the queue can queue a job again that
is already first in the queue, if that may queue itself, and it runs twice: hence
`FirstInOrder` and `Again`; the sort may carry both to the middle of the queue. The proof
shows that there is one such job at most. An exception from a callback, other than those Vue catches, leaves
`isFlushing` set and the scheduler stopped for good (`StopsOnlyInCallbacks` says that
an update's does not). A watcher with `flush: 'sync'` that writes in its own callback is
called again with an old value that has not been kept yet; and when the outer call returns
it keeps its own value over the newer one (3345), so that a later change back to that value
is not told at all (`nested`). The attempt at the proof found this: values that never recur
had hidden it. An update that `RECURSION_LIMIT` cuts off leaves a page that does not show
its state and is not updated again until something else changes; the theorems about the
page exclude it (`NoneIsCutOff`). A component may be
updated twice in one flush. `delete` of an array's element, and a value for the hole it
leaves, trigger no effect that iterates over the array's keys, as the length stays
(`MissedKeys`). An effect that is stopped while it runs is tracked again by what it reads
until it returns, and nothing ever takes it out: one without a scheduler then runs at every
such write, and does so within itself if it makes the write (`excused`).

*Asynchronous components.* A loader that resolves to `undefined` is warned about and shared
like one that gives a component: the request stays pending, and the loader is never asked
again (`FailureIsAskedAgain` says so). When timeouts have forgotten all requests, an
earlier one that gives `undefined` late takes the place of a component that is there.

*Suspense.* A content that is toggled back while the other one is pending, and brings a
new asynchronous child, makes `resolve` throw "suspense.resolve() is called without a
pending branch." (2544). A child that was removed while its end still waits among the
effects is not seen to be unmounted when its promise settles: it is rendered at its
placeholder, and stays (`misled`). "Toggled back" (2465-2469) leaves `deps` as it is: when
the content on the page has brought a child that is still counted there, and the other
content comes again before the child has answered, that answer is outdated (2663) and is never
taken off, so that the boundary never resolves (`overcounted`). It takes three renders.

*Templates.* Where a comment of the user stands beside a single root, attributes that
fall through from the parent are not always brought up to date; the run's templates
have no such comment. Texts and the items of lists without keys do not learn their nodes when a
block is patched, so moving them would fail (`exempt`).

*KeepAlive.* A render that comes before the queued hooks of the last one has run puts a
child aside that the cache does not hold; pruning takes an instance for the current
one when only its type is the same (`untidy`). Such a render can also throw, when
`pruneCacheEntry` is given a key whose child is not in the cache yet. The proof of its
invariant found that the model had not counted this case among the untidy ones.

*Transitions.* Without hooks, `out-in` ends its leave within the update that starts it; the
new render it asks for is lost, and the page stays empty until the next one (`missed`). A
child that is replaced before the transition is mounted may be shown twice (`early`).

## 5. Proofs

Everything listed is checked by TLAPS for every value of the constants, under the
named assumptions of the modules and nothing else. They say that one constant is a subset
of another, that a set is finite or not empty, that a value stands for nothing, or that a
bound is a number:

| assumption | says |
|---|---|
| `ClientAssumption`, `PusherAssumption`, `TalkAssumption` | finitely many connections, `NoClient` is none of them; the timer and the request are the only others that push; who talks has a connection; the bound of messages is a number |
| `UserAssumption` | restless users are users, and nobody is none of them |
| `RequestAssumption`, `NoStudentAssumption` | who adds is a request, the ids go beyond the seeds, no student is none of them |
| `SocketAssumption`, `ClientsAssumption` | there are finitely many sockets, at least one, and at least one MQTT client; a port that is free is held by no request |
| `ServicesAssumption` | a file has a name and at least one chunk, no file and the old one are no uploads, finitely many sign-ins, the built-in account is a user, a user's roles are a list of strings |
| `TaskAssumption` | a task has a number as its id, `NoTask` is none, a component's update is neither a watcher's job nor a hook, and the bounds are numbers |
| `UpdatesAssumption` | the instances of the child come in a sequence; data are of the four kinds with a proxy; an effect is of one sort; what stands for no effect, or no child, is none; lengths and limits are numbers |

Each argument is the usual one: `Init => IInv`, `IInv /\ [Next]_vars => IInv'`, and the
property follows from `IInv` or from a step in it. Where a run's property speaks of a
composition, an "...IsItself" lemma shows that every behaviour of the composition is,
for the part's own variables, one of the part's specification (each step is a step
of the part or leaves its variables alone); the invariant, proved of the part, then holds
of the composition too.

**WsAnnotationProofs**: `TypeCorrect`, `SettledHub`, `OnlineCountLag`,
`SkipsHaveACause`, `JoinFailuresHaveACause`. `HubSettles` speaks of states at rest,
so it says nothing inductive. `IInv` adds what holds on the way: `Lifecycle` (an
open session is in the set, or some thread is just about to close it; once `onClose`
has removed it, it stays out), `KnownTargets` (only connected clients are visited),
`WritersOnTheirWay` (who is writing stands where the code writes, one text at a
time), and `CountExact`: the counter is the number of the `onOpen`s that have added
minus that of the `onClose`s that have subtracted. At rest the two counts differ by the open
sessions. `OnlineCountLag` says how far off it is at any other moment: more by the closed
sessions that are still to be subtracted, less by the registered ones still to be counted.

**MCWebSocketsProofs**, about the chat: `ChatTypeCorrect`, `SettledEndpoint`,
`RefusalsHaveACause` of the endpoint
alone, `SettledInContainer`, `RefusalsInContainer` of the run's composition.
`ChatInv` has the hub's three parts for a broadcast that
calls itself: `ChatLifecycle`, where an open session is in the set or some handler has
just taken it out and will close it, whichever of the nested broadcasts that is;
`KnownTargets`, where every frame on a handler's stack holds connected clients
only; and `WritersOnTheirWay`. The action property follows because a
refused write finds no other writer behind the receiver's monitor and a
client that has connected: only a closed session is left as the cause.

About the Spring handler: `TypeCorrect`, `NoGhosts`, `PatientUserIsKept`,
`BreakOffsHaveACause`. The heart is `KnownAfterPut`: before its `put` no map entry,
caller or text knows a session, so nobody can close it; otherwise a session could be
stored after its end was handled. `Patience` says that a patient user's only live
connection is the one in the map.

**MCServicesProofs**, about the table of students: with one adder (`OneAdder`),
`InsertsAdd` and `ImplementsTable`, the refinement: `InitRefines` and `NextRefines`
show that each step is a step of `StudentTable` or a stutter. The insert is the
`put`; the increment is a stutter because `Issued` counts the id from the put on.
`AdderKnowsCounter` is where the assumption enters: from the first read to the
write, nobody else moves the counter. The run `students_two_adders` shows that the assumption
cannot be dropped.

About its queries: `QueriesAreOfTheTable`, with any number of readers and of
adders, racing ones included. `IteratorIsInOrder` is the invariant: what a
reader that goes on has written are the ids that its moment's table holds below the id it
comes to next, each with a student the table has had since, and while no id has come or
gone the table still has those ids. The next
id is a least element, for which well-foundedness of the naturals is cited.

About the other services, an invariant for each of three, and five theorems:

* `FilesInvariant`, for `StoredStays`, `OldFilesAreGone`, `UndisturbedDownloads`.
  `Uploads` counts the chunks of an upload by the place it stands at. `Starts`: while the
  walk is under way, every old file is among the names it has still to visit, and a
  name still to visit has a file unless an upload was taken early; so a walk that ends
  leaves no old file or has an early upload to blame. `Kept`: a name that was stored
  after the start has a file, unless another upload stands between its delete and its create, or has
  failed there.
  `CalmIsWhole`: as long as no upload has disturbed a download, the file of its name is
  whole and is the one it has measured and opened.
* `UsersInvariant`, for `LoginsGetTheirRoles`. `Filled` holds of all logins, racing ones too: the
  array is never shorter than its size. `OneLogin`, `AddsInOrder`, `CopiesAll`,
  `IsAnswered` follow a login that has been alone since it began: what it has read of the
  size is so, the roles it has added are in the list, its iterator finds its `modCount`.
  `UsersMeet` follows those that overlap: one that copies and has met no adding login
  finds the list as its iterator knows it, and nobody adds; so only one that has met fails.
* `SignInvariant`, for `SignInsStay`. `RecordsAreKept` counts: the sign-ins of a user that
  have passed their record are at most as many as its records in the first file, which
  is only appended to; the step that adds to both is one. `OwnLines` is about the one that is
  alone with the second file.

**MCConnectionsProofs**, about the page: `NeverStuck` (the lock is taken exactly while the
timer is armed) and `SingleConnection` (until the page has strayed, the two heartbeat timers
are never armed together, so none can fire while the socket is closing). About MQTT:
`MqttTypeCorrect`, `LinkSettles`, `LinkSettlesBeside`. `OneClientAtATime`: at most one thread
has a client to make or to connect, and when it makes one no other is connected;
`WillSubscribe`: a connected client without subscription has a thread to come. About the
requests that wait: `OneOfEach`, the safety part of `WaitsAreSettled`. `WebInv` counts: those
that have found a line and the lines that are left are together at most as many as were
typed, because who finds one takes all that are there.

**VueSchedulerProofs**: `NothingIsLeft` and `FlushesAreNotNested`, for any tasks, ids,
limit, and number of calls and of waiting callbacks. `DrainsWhenIdle` speaks of the
idle scheduler only. What holds meanwhile: at most one `flushJobs` on the stack works
on the queue; when the flag is off, none does; and when something is left though
neither a flush runs nor one is pending, the innermost call is the restart that
`flushJobs` makes for it. The last part is where line 1641 is needed.

About what happens while it works: `JobsAreInOrder`, `WaitingJobsRun` and
`OnlyCallbacksStopIt`, the safety part of `FlushesInOrder`, from the invariant `SInv`:

* `Shape`, about the stack: each call sits on one that makes such calls (`CalledFrom`); a job
  runs in a loop of the queue; there is one flush of the callbacks before the queue, and one
  loop over those after it. So while a job flushes callbacks, the loop that called it
  still stands at that job.
* `QueueInv`: outside the loop `flushIndex` is 0, and only the first job may be in the queue
  again; past what runs the queue is in order, with one pair of equal jobs at most.
  Insertions (`QueuedWaits`) and removals keep that, because the search begins past the
  index, and `i > flushIndex` guards the splice of `invalidateJob`. A removal that shifted
  what has run would make the loop skip a job.
* `ActiveInv`: while `isFlushing` is set, a flush works or an array of active callbacks was
  left by an exception.

`SortIs` and `DistinctIs` are the lemmas about `Arranged`: it is a permutation in order,
by counting what is before an element, without an induction.

**MCVueQueueProofs** and **MCVuePageProofs**, about the components on the scheduler:
`PageStaysCurrent` and `WatchersStayTold`, for any instances of the child, values, flush options, limit and number
of writes. `PageIsCurrent` and `WatchersAreTold` speak of the moment when nothing is under way
or to come, so the invariant says of every other moment *what* is to come, and for whom.
The hypothesis is `NoneIsCutOff`: no update is cut off by `RECURSION_LIMIT`. It is needed
(with a smaller limit TLC finds a page that stays stale), and the run's page meets it.

* `SchedulerInv`, in the first module, is about the scheduler while its tasks are those of
  components. `Stacked`: which call is made within which; each kind of call has a
  level (`Level`), and only watchers' jobs nest in themselves. `Flags`: when something is
  left though no flush runs or is pending, the innermost call is the flush that
  begins. `Indexed`: while a job runs, `flushIndex` is in the queue. `Looping`: what
  is active has its loop on the stack. An update is to come when it waits ahead of the
  index, is being scheduled, or has not rendered yet (`Coming`; `WatchComing` for watchers), and
  `SchedulerKeeps`, from one lemma for each action, says that no step of the scheduler loses
  one (`WorkKept`).
* `Tracking`: a mounted component is tracked under all that it reads, unless its update
  has cleaned its deps up and has not rendered yet; nothing else is tracked.
* `Taking`: a prop that a child is to take is the current one, and is taken by the very next
  call, so that no write comes between.
* `Page`: what a component shows is what it sees, or its update is to come. The child is
  there exactly if it is to be shown, or the root's update is to come; the child's prop is current,
  or is about to be taken, or the root's update is to come.
* `Telling`: the same for watchers, `told` and `WatchComing`. `IsTold` says how `told`,
  `oldValue` and `newValue` go together while a callback runs, which holds for all watchers
  but the `nested` ones.

A write disturbs every part at once: it makes pages and watchers old and must
find their schedulers among the calls it makes (`TriggersAll`), which is where
`Tracking` is needed (`WritesKeeps`). `BothInit` to `BothUntouched` carry the invariant over
to the composition, where the components stand still while another part runs.

**MCVueUpdatesProofs**, about the reactivity: `ReactivityInvariant` and `NothingStale`, for
any effects, keys, values, kinds of data and bounds. `NoStaleEffect` speaks of the moment at
which no code runs; a write in the middle of an effect runs other effects, which write
again, and the invariant has to say what holds in between. `ReactInv` has four parts
besides types:

* `Calls`, about the stack. `Shape`: each call sits on those it can have been made from, an
  evaluation on the getter of its computed ref, a run on its evaluation or on whatever
  wrote, and a run is of an effect that is not running below; what runs is active or
  excused. `Balanced`: there is a height for each place
  in the stack, so that what saves `shouldTrack` goes with one saved value; so that
  tracking is restored when all calls have returned (`TracksInTheEnd`).
* `Tracked`: what an active effect has seen is tracked, for every dep that it
  stays tracked under whatever is written (`SureDeps`).
* `Seen`: an effect that is `Current` (neither queued, dirty, excused, nor among those that a
  trigger on the stack has still to run) has seen what still is, and is tracked
  under every dep that a change of it would trigger (`AllDeps`).

The steps that write need that the deps they trigger cover the reads whose result
they change: `SetKeyCovers`, `DeleteKeyCovers`, `SetLengthCovers`, `ClearCovers` are the
proof of that table of the source (`trigger`, 476-545) for every kind of data, with the one
exception `MissedKeys`.

About KeepAlive: `KeepAliveInvariant` and `KeptReachable`, for any children, types, names to
include, limits and numbers of renders. `KeepInv` speaks of the runs that are not `untidy`. `Shown`: the
instance in the tree is the only one that is shown. `Cached`: a cached instance is the one in
the tree or put aside, and what is put aside is cached, under one key. `Hooks`:
`isDeactivated` is right, or a queued hook will make it so, and no queued hook will make it
wrong. `Keys`: the set `keys` is that of the cache and of the key to come, ordered by last
use, at most `max`. `Keeps` ties the tree to `pendingCacheKey` and `include`. `Done`: the hook that fills the cache is
the last in the queue, and once the watcher of `include` has run all in the
cache are included. It is this last part that makes a render in time find its child.

About asynchronous components: `FailuresAreAskedAgain` and `NewestGives`, the safety part of
`AsyncIsAnswered`, for any wrappers and any number of requests. A request that fails is forgotten
by a wrapper that waits for it, so `Awaited` says that there is one for every request without
an answer, and for the pending one unless that is resolved, when it has given what
`resolvedComp` is. It may wait by way of others: a request that was asked
again, or overtaken, follows a later one. `LeadsTo` is that chain, as the least set closed
under it, which needs no recursion; `LeadsElsewhere` is the step where an overtaken request
leaves the one it followed for the pending one and nothing unanswered is lost.

Model-checked only:

* everything about liveness (`~>` and fairness are outside the prover's reach here), which
  most of the runs' PROPERTYs are or contain (`FlushesEnd` in `FlushesInOrder`);
* `TemplateIsShown`: `VueTemplates` declares `RECURSIVE` operators, and what a
  template means is an induction over it; likewise the results of the diff and of
  `getSequence` in `ChildrenArePatched`;
* that no update of the run's page is cut off, which depends on the bound of the writes and
  on the limit together.

## 6. Assumptions about what is not in the repository

* Tomcat: as in `WsContainer`; the container calls `onClose` once per session, also
  while another handler of the session runs; after an exception in a handler it
  calls `onError` and may close the session; it reads messages only after `onOpen`.
* Spring: a callback that throws has its session closed; answers are written after
  the controller's method has returned; STOMP messages are handled in a pool.
* Paho: it reports a lost connection once, in a thread of its own, to a client that
  has its callback; a call on an unconnected client throws.
* JDK on POSIX: `Files.copy` and `Files.walkFileTree` as described above; `ArrayList` and
  the iterators of collections as in its source, with `modCount`.
* gRPC and Redis: a port has one server; a channel delivers at least one of endlessly
  many messages.
* Browser: events and timers of a page run one at a time; `close()` on a
  connecting socket makes it closing; microtasks run before the next event; a
  promise calls back once, after it has settled; `insertBefore` moves a node that is in
  the page; a `Map` and a `Set` iterate in the order of insertion.

`PROJECT.json` marks each definition that stands for such code as external.

## 7. Not modelled

* `UploadController`'s listing (`loadAll`): it changes nothing and reads one directory.
* Request filter, CORS, `getIp`, `NetUtil`: functions of one request or of the machine's
  interfaces, without state; nothing calls `NetUtil`.
* Kafka: the configured serialiser classes (`com.hg.hyy.seranddeser`) do not exist in
  the repository, so a client cannot be created and nothing behind it is reached.
* InfluxDB, RestTemplate, video, speech, token helpers: input and output only.
* Configuration, data classes, JPA interfaces, generated code, page templates.
* The thread and connection limits of `TomcatConfig`, and time.
* Small steps: the header and the object that `record` writes to a file of objects are one
  line; `VueScheduler` queues callbacks one by one, and the array of them (1547-1552) comes
  with `VueUpdates` only; the mode of a transition is that of its first render.
* Of Vue: Teleport, hydration and hot replacement, slots, provide and inject, the options
  API, `v-model` and form directives, styles and events, `TransitionGroup`, the template
  parser and the printing of code, devtools. They keep no state that outlives a call, or
  hand everything to the parts that are modelled. Within the modelled parts the
  abstractions are those of the table in section 2. The page `vue.html` uses only
  part of the runtime; the modules model what the runtime offers.

## 8. Plan

Written in this order: hub, chat, Spring handler, students, page, uploads, MQTT, and
their proofs; then the student queries and the small services; then the Vue
runtime from the scheduler outwards: reactivity, component updates, diff,
templates, Suspense, asynchronous components, KeepAlive, transitions; then the
proofs about the queries, the scheduler and the chat; then those about the services, the
reactivity, KeepAlive, asynchronous components, the waiting requests, and the page and its
watchers on the scheduler. What is left:

1. **Proofs**: the action property inside `SuspenseResolves`.
2. **Composition** of `VueClient` with the hub: heartbeats that come back because
   of the hub's `sendInfo`, and the connection a dropped page leaves behind; of
   `VueKeepAlive` and `VueTransition`, where an activated child enters.
3. **Slots** in `VueTemplates`, and Teleport's moves in `VueChildren`.
4. **Pure functions** of the application against a reference: `getIp`,
   `NetUtil.getLocalIp` and `matchedIndex`.
