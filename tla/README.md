# NXTDebugger: verification

TLA+ models of NXTDebugger, the desktop debugger that attaches to a running
client through shared memory and a named pipe, with TLC configurations that
check them on small instances and TLAPS proofs for instances of any size. File
names and line numbers below are those of the repository; `PROJECT.json` maps
every definition to the lines it stands for.

1. [The system](#1-the-system)
2. [What is hard about it](#2-what-is-hard-about-it)
3. [The modules](#3-the-modules)
4. [The runs](#4-the-runs)
5. [Fairness](#5-fairness)
6. [The proofs](#6-the-proofs)
7. [Where code and documentation disagree](#7-where-code-and-documentation-disagree)
8. [What is not modelled](#8-what-is-not-modelled)
9. [Plan](#9-plan)

## 1. The system

The program is one window with some fifteen panels. Almost everything happens on
one thread, the **frame loop** of `main.cpp`. A frame is always the same walk:

    App::Update
      DrainEvents            take new events off the ring (unless paused)
      UpdateTapConnection    match the push pipe to the attached process
      UpdateRpcConnection    match the request/reply pipe to the attached process
      UpdateTickPulse        has the snapshot changed since the last frame
      menus, status bar
      panels                 Attach first, then all others that are open
    overlay                  create, move or drop the window over the game; paint

Two more threads exist: the **reader thread** of `TapClient`, and the **worker**
of `Cs2Index`. The other side is the **agent**, a DLL inside each client process,
which is not in this repository: it writes the shared memory (snapshot and event
ring) and serves the named pipe with four instances. `NXTCache.dll` is a second
external part.

| component | state | operations | talks to |
|---|---|---|---|
| Event ring and `EventReader` (`src/wire`) | `lastSeq_`, `dropped_`, `primed_`; the ring in shared memory | `Drain`, `Reset` | agent threads, by shared memory without locks; `App::eventBacklog` |
| Snapshot buffer (`SnapshotReader`, `UpdateTickPulse`) | `lastPublishSeqSeen`; two buffers and `frontIdx` in shared memory | `CurrentSnapshot`, in-place reads | agent; every panel that draws live data |
| `TapClient` and its subscribers (RPC tap, Script context) | pipe handle, status, topic registry, stop event; per panel a capped ring, pause, `lastSubscribedPid` | `Connect`, `Disconnect`, `Subscribe`, `ReaderLoop`, `DispatchFrame`; `EnsureSubscription`, `OnTap`/`OnPayload` | agent, by pipe; panels, by callback on the reader thread |
| `RpcClient` | pipe handle, `nextId_`, `lastStatus_` | `Connect`, `Disconnect`, `Call` | agent, by pipe, blocking the frame loop; all panels share one client |
| Attach: `Session`, `ProcessList`, Attach panel | the mapping; candidate list | `Open`, `Close`, refresh | everything above follows the session's pid |
| Interfaces panel | selected interface and component, tree, pick and auto switches, badges | `EnsureConnection`, `CallTree`, `SelectComponent`, `MaybeAutoRefresh`, pick, `HandleStaleTree`, `PublishOverlayView` | shared `RpcClient`; the overlay, through `App::interfaceView` |
| Overlay | window, GL context, target pid | ensure, follow, paint | `App::interfaceView` |
| `Cs2Index` | status, cancel flag, three maps, a cache file | `BuildAsync`, worker, queries, destructor | file system; Cache panel |
| Event panels (Events, Var Watcher, Session) | last event seen, derived tables, histories | scan the backlog, poll by RPC | `App::eventBacklog`, shared `RpcClient` |
| Inventory and Snapshot panels | object variables per container; rows of the action history | refetch on an event or a timer | `App::eventBacklog`, shared `RpcClient`, the snapshot |
| Debug Draw panel | list of the agent's drawing store, stats, flags, banners, forms | paged list, set, batch, highlight, probe, clear | shared `RpcClient`; a store that other clients draw in |
| RPC console | a private `RpcClient`, method list, selection, calls | connect, retry, list, call | agent |
| Cache panels, `NXTCache` client | type, ids, names, filter, detail, history | open, list, resolve, navigate | external DLL, one handle for both panels |
| Decoders (MessagePack, JSON, flags) | none | parse, encode | all of the above |
| Names, log, theme, textures | tables, a log ring | lookups | drawing |

What makes each part correct:

* **Ring**: what is returned is what was published, in order, at most once; what
  is lost is counted; no producer can hold the reader back.
* **Snapshot**: a view is one snapshot as long as the agent does not publish
  into it; the pulse follows a live agent and goes dark with a dead one.
* **Tap**: rows of one process never reach a panel that shows another; closing
  never hangs the frame loop, which waits only in the write of a request; the
  connection comes up whenever it can.
* **RPC**: a call reads its own reply, never a late one; no pipe instance is
  lost; no call blocks for good; the connection is made again after any failure.
* **Interfaces and overlay**: interface, component, tree and boxes are of the
  process and the interface they are shown for.
* **CS2 index**: what answers queries is a whole scan, whatever was cancelled,
  killed or left half written.
* **Overlay window**: it comes to lie over the game's window, whichever windows came
  and went before.
* **Tap panels' rows**: what is shown is of one process, and the detail is that of the
  call that was picked.
* **Debug Draw**: the list is the store's when nothing tore it, becomes so when the
  store rests, and is never passed off as read after a batch it was read before;
  each form sends what the agent takes.
* **Console, inventory, history, cache browser**: what is shown is of the process,
  the containers, the log or the cache it is shown for, at once or at last.
* **Decoders**: a skipped value ends where it ends; what is written reads back;
  JSON's documents and nothing else are taken.
* **Event panels**: a scan of the backlog applies each event once; a row comes to
  show the value the variable has; a status is that of the latest event.

## 2. What is hard about it

* Lock-free reading of memory another process writes: every load of a drain or
  of a panel is a step of its own between the agent's stores.
* A thread joined from the frame loop, and callbacks on that thread into panels
  that are being moved to another process.
* Three things that follow the attached process at different moments of the
  frame: the session (Attach panel), the two pipes (start of the *next* frame),
  the overlay (end of the *same* frame). Everything between sees a mixture.
* A pipe that is a byte stream: a deadline can pass with half a reply read.
* An agent that goes away, comes back, refuses, or has no instance left.
* State a panel fetched by several RPCs, each of which can fail on its own.
* Panels that remember how far they have read a backlog that is cut, cleared and
  filled by another process in the meantime.
* Lists read page by page, container by container or name by name over several calls or
  frames, from something that changes in between.
* A handle, a client and a snapshot that panels share, each with memos of its own.
* A cache file that survives the program that was killed while writing it.

`PROJECT.json` lists the hazards one by one at their lines, with the properties
that cover them, or the reason none does; a note beside properties says what they
leave out.

## 3. The modules

Each module has a proof module (`...Proofs`) and a module for TLC (`MC...`).
Definitions that begin with `\* Fault:` are not part of any specification: they
are plausible bugs of the code at that place, used to test that a property can
fail. Variables named as *history* in the declarations exist only so that a
property can refer to the past.

**EventFeed** is the abstract promise of the event ring: numbers are claimed one
after another, and some of them are handed over, in increasing order.

**EventRing** is `wire/ipc/SharedLayout.h` and `EventReader::Drain`. A producer
claims a number, stores type and body into the slot, and commits by storing the
number. `Drain` is cut at every access to shared memory: `PrimeDrain` or
`BeginDrain` loads the head, `SlotReady` / `SlotOverrun` / `SlotUncommitted` are
the three outcomes of loading `slot.seq` (lines 46-59), `CopyType`, `CopyBody`
and `PushRecord` the copy, `FinishDrain` the assignment of `lastSeq_`. `Attach`,
`Detach` and `TogglePause` come between drains, since the frame loop runs a
drain to its end. `overtaken` is a history: events were claimed while a drain ran, up to
a lap past the one it began with. A payload is two words that carry the number of the event that
wrote them. `NobodyLapped` excludes a producer that sleeps for a whole lap
inside its slot: then the ring is corrupt under any reader. *Composed with
EventFeed by refinement.*

**TapLink** is `UpdateTapConnection`, `TapClient` with its reader thread, and the
panels that subscribe; their `EnsureSubscription` are the same code, so a panel is
named by its topic. `ui` is the place in the frame and `reader` the place in
`ReaderLoop`. `DropConnection` sets the stop event, `JoinReader` is `join()`
returning. `SendSubscribe` and `SendFails` are the two ends of the write of a request
(`WriteAll`): the agent takes it, or the pipe breaks; until then the UI thread waits.
Registry and rings are behind a mutex each, so that an access is a
step. `Unsubscribe` has no caller and is left out. The pause flag, which the code
reads and writes without a common lock, is one step to read and one to write.

**SnapshotBuffer** is the double buffer, `CurrentSnapshot`, `UpdateTickPulse`, and a
panel reading in place for the rest of its frame, one word per step. Word 1 is
`publishSeq`. The agent never writes the buffer `frontIdx` names.

**RpcLink** is `UpdateRpcConnection` and `RpcClient`. A reply is a length and a body,
written and read apart, so a call can end between them. A deadline is a choice:
each wait may run out. The panels of a frame are reduced to what matters here:
any number of calls. Agents keep an account of their pipe instances: held by the
debugger, closed and not yet listening again, taken by others. `Refused` tells
a pipe whose instances are all taken (`ERROR_PIPE_BUSY`) from a missing one.

**RpcCall** is the abstract promise of a call: numbers rise, one call runs at a time, it
is answered at most once, an answer can be lost, and the verdict is a failure to ask, a
timeout, or what the answer to this call said. Between calls the verdict is the
connection's, never a new timeout or handler's error. *RpcLink is composed with it by
refinement (`CallStage`, `CallReply`).*

**InterfacePanel** is the Interfaces panel with the frame around it and the overlay
behind it. Places: `rpc`, `menu`, then `panel`, `refresh`, `pick`, `panes` if the
panel is drawn, else `overlay`. `Prepare` is the part up to the first RPC
(`EnsureConnection`, the open list, `HandleStaleTree`); `AutoRefresh`, `PickHit`
and the clicks make the RPCs; `RenderOverlay` is what `main.cpp` does afterwards.
Reductions: a component is the interface it belongs to (nothing modelled depends
on which one of that interface it is); hidden components, badges and filters are
left out; `shown` stands for open, not collapsed and in front; the user does
one thing in a frame, since a click has one target. `ClearSelection` also
leaves the panel's `children` list alone, which is only drawn with a selection.

**EventPanels** is what follows `EventRing`: `DrainEvents` into the backlog, its cut, the
Events panel's Clear, and two of the panels that scan it, Var Watcher and Session,
whose `ScanEvents` is the same code (`Picked`, `Remember`). The frame is `drain`, `menu`
(Attach and Events panel, View menu), then `watch`, `poll`, `rows` and `token`,
`pollToken`. An event is its process and number; the value a change event brings is
its place in the agent's log, so that an old value is never equal to a new one. A
row is keyed by its variable (`AddWatch` refuses a second one). `PollVars` and
`SkipPollVars` are the poll being due or not. `Polled` variables are varps and
varcs; a varbit (`Unpolled`) has no RPC. Loss in the ring is `LoseEvent`; that the
reader hands over a session's events in order is what `EventRing` proves.

**Cs2Index** is `BuildAsync`, the worker, `LoadCache` and `SaveCache`, the destructor, a
process killed anywhere, and the runs after it. A map is the set of file versions
it was filled from. `ReadMap` failing at the end of the file is `Complete`.
`Publish` stores the status and ends the thread at once: nothing happens between.
`SetDir` with another path is a change of `disk`. `BuildAsync` has a parameter
`force` that no caller sets. One debugger is modelled; two that write the one
cache file at the same time could mix it.

**Panels** composes the panels that keep state of their own. They share nothing but the
connection and the cache handle, which another panel may break or open at a known
place of the frame; these are actions of each part, so `panel`, chosen at the start,
says which one is looked at, and a step of one leaves the others' variables alone.
Its parts:

* **DebugDraw** (the module `Panels` extends): the frame is `panel`, `auto`
  (`TrackConnection` done, `AutoRefresh` next), `list` (one `FetchListPage` a step),
  `stats`, `draw` (the click). A call has the four outcomes `RpcClient::Call` has. The
  agent's store is a sequence of keys, ours (`mine`, dropped with the connection) and
  other clients' (`others`), capped at `MaxCmds`; other clients draw between any two
  calls. What a command draws is left out.
* **DrawParams**: the forms of its tabs as records, the names each sends, and what the
  agent takes of them; key lengths, points and the bad item of a batch as numbers.
* **RpcConsole**: `console`, `list`, `status`, `methods`, `call`. The list may be cut by
  an item that is no string, which the code takes for the whole.
* **ObjVars**: `DrawToolbar`, `UpdateObjVars`, then one container a step of `FetchObjVars`;
  the agent replaces the list between any two.
* **ActionHistory**: the rows are named by the log they were read from, how far, and
  whether whole. `EarlierPanels` is the Attach panel and whatever broke the pipe since
  `UpdateRpcConnection`: in the frame of an attach, `client` is the process before.
* **CacheBrowser**: `filter`, `rows`, `detail`. A name in the memo is the cache and type
  it was decoded from. `foreign` notes that the Cache Lookup panel opened another
  cache since the list was loaded.
* **MsgPack**: the readers and writers, of numbers of 64 bits, as functions of a sequence of bytes, and
  `SkipValue` as a machine over its stack of open counts, on every buffer of `MaxLen`.
* **TapRows**: the rows of the two panels that subscribe; `Receive` is the reader thread
  between any two steps of the frame, `topic` which of the two panels. TapLink has the
  connection; here a callback is registered or not.
* **GameOverlay**: windows open, close, hide and take the focus at any time
  (`DesktopChanges`); `Resolve` looks for one when the overlay has none that exists and
  the 250 ms are over. An alive window that is not drawable is hidden or minimised.
* **JsonText**: `ParseJson` over tokens, and its escapes. Only the TLC module uses it.

## 4. The runs

| run | shows | instance | why it is enough |
|---|---|---|---|
| `ring` | records intact, losses counted and counted once, feed ordered, reader catches up; EventRing implements EventFeed | 2 producers, 2 slots, 5 events | five events lap a reader of two slots twice; one producer can sit in a slot while the other goes past it |
| `tap` | rings of one process, frame loop hangs only in a write nobody takes, connection comes up | 2 processes, 1 panel, ring of 1, 2 frames | the panel moves to another process with a frame on the pipe, one in the reader's hand and one in the ring |
| `snapshot` | a view is whole until a publish and never stale; pulse follows the agent | 3 words, 4 publishes | reader and writer cross in the middle; four publishes come back to the reader's buffer twice |
| `rpc` | pipe in step, no instance lost, calls return, client reconnects; RpcLink implements RpcCall | 2 processes, 2 instances, 2 calls | a call is left behind on one process and the next made on another, or on the same one after a reconnect; one closed and one foreign instance refuse a connect |
| `interface` | panel and overlay of one process; tree follows selection; closed interface let go | 2 processes, 2 interfaces | one process's data shown for the other; a tree of another interface than the selected one |
| `cs2` | index whole, cache file whole, builds end | 2 files in 2 versions of different size | a scan that reads one file before and one after a change, a cache file cut at each of its parts, two runs of the program |
| `events` | each event applied once, rows settle, failure is the latest | 2 processes, 3 events, 1 variable, backlog of 2, one panel in use | an event is cut off before a hidden panel has seen it; the two processes' events lie in one backlog; an old event follows a newer polled value |
| `panels` | Debug Draw's list, banner and settling; the console's process and list; object variables, history and overlay settle; the browser's list, rows and walk; exact skips; tap rows agree | per part: 2 commands in pages of 1, 2 processes, 2 containers, 2 caches with 2 types and 2 ids, 4 bytes of 7 values, 3 payloads in rings of 2, 3 windows of 2 processes | a list of two pages torn between them, a console or a history over two processes, a fetch over a list replaced half way, names indexed over two frames and two caches, a value nested to the cap and beyond, a full ring with a picked row, a window closed and another found |
| `ring_lost`, `tap_status`, `tap_panel`, `events_replay` | a statement of the repository that the code does not keep (section 7) | as small as the case allows | one counterexample decides |

The bounds: `MaxSeq` (events claimed), `MaxFrames` (frames published), `MaxGen`
(snapshots published), `MaxCalls` (calls made) and `MaxEvents` (events logged) cap
counters the code does not cap; they are guards of `Claim`, `Publish`, `WriteWord`,
`BeginCall`, `CallUnsent` and `Publish`. `Layouts` says which of the two event
panels a behaviour uses: they share nothing but the backlog and the client.
`RingCap` (5000 in the code), `Slots` (1024), `Cap` (4096) and `PipeSlots` (4) are
parameters of the code, as are `PageMax` (128), `PageBudget` (4), `MaxCmds` (512),
`HistoryCap` (64), `NameBudget` and `RowBudget`, `MaxNesting` (64) and `RowCap`
(`kRingCap`, `kStateRingCap`, `kTraceRingCap`). `MaxLen` (bytes of a buffer),
`MaxHistory` (entries of the walk), `MaxPayloads` and `MaxActions` bound what the code
does not. What section 6 lists as proved is proved without any of these bounds; the
rest stands on the runs alone. Every run checks for deadlock and none has one, but
`panels`, in which the decoder comes to the end of its buffer and stops.

`MCPanels` also has TLC evaluate what is a function and not a behaviour: that numbers
on both sides of each width and every header read back as written
(`WrittenNumbersReadBack`); that every state of the Debug Draw forms makes a call the
agent takes, keys of different highlights differ, a batch's keys fit, a batch draws what
is before its bad item, and an overlong poly is refused, not shortened (`FormsAreTaken`,
`FormsAreBounded`, `HighlightKeys`); that of the 111,111 texts of up to five tokens those
taken are JSON's documents (`DocumentsAreTaken`); and that characters come out of
their escapes (`EscapesReadBack`).

The type invariants are proved (section 6) and not run a second time.

What the properties say:

* `IntactUnlessLapped` — the copy of a record is its own, unless the producers
  were a lap ahead; the code does not look at `slot.seq` a second time, so the
  premise is needed, and event 0 cannot be told from an empty slot.
* `LossIsCounted` — returned plus dropped is at least what the session passed, as long
  as no drain left its loop early. `CountedOnce` — it is at most that, however far the
  reader fell behind between its drains, as long as no drain is overtaken while it runs.
  Both premises are needed: with either left out TLC finds the sum wrong (section 7).
* `FeedIsOrdered` — the refinement: never twice, never back, never before it was claimed.
* `RingIsOfOnePid` — the join comes before the pid moves, the clear before the topic.
* `FrameLoopRuns`, `EventuallyConnected` — `join` returns, and the frame loop stays for
  good nowhere but in the write of a request that the agent does not take from a pipe that
  does not break; but for that, a refusal is retried until it succeeds.
* `ViewIntactUntilPublish` — the header's own condition for a race-free read.
  `ViewIsNeverStale` — a torn view mixes forward only. After a publish a view
  *can* be torn: the panels accept that.
* `LiveAgentPulses`, `DeadAgentGoesDark` — although `publishSeq` is read from a buffer
  that may be in the writer's hand.
* `PipeIsInStep` — every early end of a call closes the pipe; what keeps it open
  has read the whole frame. `NoSlotIsLeaked`, `CallReturns`, `Reconnects`.
* `CallIsOneExchange` — the refinement: a verdict is of the answer to the call's own request,
  and none is made up for one that came in part, garbled, or for another number.
* `PanelIsOfOneProcess` — in the frame of an attach the shared client still talks to the
  old process; the panel fetches nothing then. `OverlayIsOfItsGame` — the same for
  the boxes, as long as the panel is drawn.
* `TreeFollowsSelection`, `ClosedIsLetGo` — picks and failing refreshes do not leave the
  panel on a tree that is not the selection's, or on an interface that is gone.
* `ReadyIsWhole`, `CacheIsWhole`, `BuildEnds` — of the CS2 index.
* `ScanIsExact` — a number kept per panel stands for a position in a list that is cut
  at the front. It holds while the list and the number are of one process; across
  processes it does not (`events_replay`). Event 0 is never applied.
* `RowsSettle` — an event drained after a poll may be older than what was polled and
  overwrites it; a later poll or event repairs that.
* `FailedIsLatest` — two numbers are compared; that is right as long as both are
  of one process, whichever scans, cuts and repeats came before.
* `QuietListIsWhole` — all pages of a refresh nothing disturbed are the store: every
  command once, in order. What others draw between two pages can tear it; the panel
  polls for that, and `StoreSettles` says it comes right, over silent cycles of the
  connection as well. `AbortTableIsFresh` — the banner over an aborted batch speaks of
  the table below it; the refresh it needs can be put off by a lost connection.
* `ConsoleIsOfOneProcess` — list and answers, over any attaches while it was collapsed.
  `ListedAtLast` — a list call that fails leaves the list due. An answered one that ends at
  a bad item does not, even when that leaves no name at all: the history `cut` marks such
  a list, and the property excepts it.
* `ObjVarsSettle`, `HistorySettles` — an event can be dropped, a reply cut short, a list
  replaced half way, a due fetch used up without a connection: the timer repairs all of
  it. Before that the history may show the rows of the process before.
* `ListIsOfOpenCache` — but for a cache the Cache Lookup panel opened. `RowsAreTheMatches`
  — with the names known now, and with all of them once they are indexed.
  `ShownIsVisited` — Back leaves what is shown for the entry before it.
* `SkipIsExact` — a skip ends behind the last byte of the value, or fails; it never
  succeeds on a value cut short or nested too deep.
* `TapRowsAgree` — nothing of another process in rings, annotations or detail; the detail
  is the picked call, which stands as many rows above the highlight as were dropped
  since; an annotation is current unless one came during a pause.
* `OverlayAppears` — for a game with one window. With two, the overlay stays with the
  first it found although that one is hidden.

## 5. Fairness

Only what the program itself schedules is fair; the user and the agents may stop
at any moment.

* `EventRing`: weak fairness of `Drain`, which the frame loop runs to its end
  every frame.
* `TapLink`: weak fairness of each thread, `Ui` and `Reader`. A reader blocked in a
  read is not enabled, and the write of a request (`SendSubscribe`) is not a step of `Ui`:
  it waits without a timeout until the agent takes it, and the stop event it also waits
  for is set by the same thread only. So nothing is assumed of the agent.
* `SnapshotBuffer`: weak fairness of `Ui`.
* `RpcLink`: weak fairness of `Call` — a wait has a deadline, and a deadline passes —
  of `Frame`, and of `Recycle`: a pipe server goes back to listening on an instance
  its client closed. The last one is an assumption on the agent, and `Reconnects`
  needs it; that property also assumes that other clients leave an instance.
* `InterfacePanel`: weak fairness of `Frame`, strong fairness of `AutoRefresh`. The
  refresh interval is over again and again when the frame gets to it, but not
  in every frame, so weak fairness would say nothing. `TreeFollowsSelection`
  assumes that the interface stays open and RPCs are answered; `ClosedIsLetGo`
  assumes neither.
* `EventPanels`: weak fairness of `Frame`, strong fairness of `PollVars`, for the same
  reason as above. `RowsSettle` assumes that the values stop changing, the panel
  stays open, RPCs are answered, and nothing of another process is in the backlog.
* `Cs2Index`: weak fairness of `Worker` and of `Exit`.
* `Panels`: each part's own, written as one formula over all parts. Weak fairness of the
  frame; strong fairness of a panel being drawn (`DrawnStep`: it is open, but may be
  collapsed or behind another tab in any one frame) and of its timer being over when
  it is (`DueStep`); weak fairness of the overlay's 250 ms. `StoreSettles`,
  `ListedAtLast`, `ObjVarsSettle`, `HistorySettles` and `OverlayAppears` assume beyond that
  what their `Calm` says: nothing changes any more and calls are answered. Debug Draw's
  timer runs only while its box "auto-refresh" is ticked, which `StoreSettles` so assumes.

## 6. The proofs

For every module the type invariant and all safety properties of its run are proved, for
every value of the constants, from an inductive invariant (`IInv`; `PanelsInv` for the
composed panels) by `Init => IInv`, `IInv /\ [Next]_vars => IInv'` and `IInv => Inv`. The
assumptions are those the modules state of their constants: a pid is not `NoPid`, the
ring has a slot, and the like.

* **EventRing** (`ProducerInv`, `SlotInv`, `DrainInv`, `FeedInv`, `AccountInv`).
  A producer in its slot is less than a lap behind; a committed number is in its
  own slot and its payload stays until a later number of that slot is claimed;
  each place of the drain knows what it has copied unless it was lapped. The
  lemma under it is arithmetic: two numbers of one slot are a lap apart.
  `AccountInv`: a pass of the loop adds to returned plus dropped what it adds to the
  cursor, and the cursor passes the head only in a drain that is overtaken. So
  `LossesAreCounted` (at least), `DropsAreCountedOnce` (at most), and under the premises of
  both `AccountsAreExact`. Also `ImplementsFeed`, that the ring implements `EventFeed`
  (every step is a claim, a delivery or a stutter).
* **TapLink** (`LinkInv`, `FrameInv`, `TopicInv`). While a connection exists
  everything on the pipe and in the reader's hand is of `tapPid`; a registered
  topic belongs to a panel that has noted `tapPid` and so has cleared its ring.
* **SnapshotBuffer** (`FrontIsWhole`, `BackIsOldOrNext`, `ViewIsOfLoaded`). The back
  buffer is new up to the writer's position and at most one publish old after it.
* **RpcLink** (`StreamInv`, `HandleInv`). At each place of a call, what may be on the
  pipe; where a handle is open, and that an open unbroken one is of a running agent.
  Also proved: `CallsAreExchanges`, that the link implements `RpcCall`. It needs `OwnInv`
  beside `IInv`: every request and every whole piece of a reply on the connection carries the
  number of the call that runs. Writing the request is `Ask`, the first piece of a reply
  `Answer`, an agent that stops `Lose`, and reading the prefix or writing the body a stutter.
* **InterfacePanel** (`ClientInv`, `DrawnInv`, `ViewInv`). If the shared client talks to
  another process than the session, this is a frame in which the user acted in
  a menu: then nothing is clicked later in it, and `EnsureConnection` has left
  nothing to fetch for.
* **Cs2Index** (`ScanInv`, `WriteInv`, `ReadyInv`). While a scan runs, read, unread and
  remaining files are the listed ones; while the file is written it agrees with
  the maps; a ready status means the worker is done with them.

* **EventPanels** (`ReaderInv`, `BacklogInv`, `SeenInv`, `EndingInv`). What the backlog holds of
  one process is in increasing order and behind the reader; of the process a panel
  saw last, the entries above `lastSeen` are exactly those it has not been through.
  An end of a refresh the panel keeps stays, as long as an older event of that
  process is in the backlog, in it behind that one: so a repeated scan of old
  events ends with the same two numbers in the same order.

* **Panels** (`PanelsInv`: the invariant of the part that is looked at).
  * DebugDraw (`AbortInv`, `PagesInv`): after an aborted batch a refresh is due unless the
    connection has gone and the panel will note that first; between two pages of an
    undisturbed refresh the rows are a prefix of the store of full pages, and the page
    budget is not used up.
  * RpcConsole (`MatchInv`, `CallsInv`, `NamesInv`): the list is a prefix of the matched
    process's, and every answer its.
  * ObjVars, ActionHistory, GameOverlay (`ObjVarsInv`, `HistoryInv`, `OverlayInv`): their
    types, for which one fact each is needed beside them, as that a fetch has a process.
  * CacheBrowser (`ListInv`, `IndexInv`, `RowsInv`, `WalkInv`): what is listed was listed under
    the open cache and the listed type; the index has named the ids it is past; the memo of
    the rows is what the filter keeps of the names known, unless it is marked dirty or
    names are coming in; the entry shown is the history's.
  * TapRows (`RegisteredInv`, `CountsInv`): a callback is registered only with the process
    the panel has noted and cleared its rings for; the detail stands at the row picked less
    the rows that slid out.
  * MsgPack (`StackInv`, `EndsInv`). `SkipValue` is a loop over a stack of open counts, the
    reference `EndOf` a recursion over values in values. `Enclosing` ties them together: for
    each level of the stack a position from which the values still open on it end where
    the values of the level above it end, up to the end of the whole. A turn of the loop
    opens a level, or finishes a value and every level it was the last of. `SkipAdvances` is
    an action property: a turn refuses the reply or passes a byte, so the loop ends.
  * Proved without any run: of the forms `Composes`, `BatchKeys`, `BatchFaults`,
    `OverlongPolys`, `AutoKeys`, `Highlights`, `Probes`, for all numbers they hold; of the codec
    `NumbersReadBack`, for every number of 64 bits, signed or not, and
    `HeadersAreReadBack`, for every count of 32 bits.

Recursive functions come into three of these: the rows a filter keeps (`Kept`), the bytes of
a number, and `EndOf`. The induction theorems of the library cannot be used (their parameter is an
operator), so these proofs take a set of counterexamples and its least element (`WFMin`,
`Reached`), which needs no parameter; that the recursive equation has a solution, which a
`CHOOSE` does not say, is `FoldExists` and its like.

Only model-checked are the liveness properties (`CatchesUp`, `FrameLoopRuns`,
`EventuallyConnected`, `LiveAgentPulses`, `DeadAgentGoesDark`, `CallReturns`,
`Reconnects`, `TreeFollowsSelection`, `ClosedIsLetGo`, `BuildEnds`, `RowsSettle`, `StoreSettles`,
`ListedAtLast`, `ObjVarsSettle`, `HistorySettles`, `OverlayAppears`), the JSON reader
(`DocumentsAreTaken`, `EscapesReadBack`) and the counterexamples of section 7. TLAPS with the
backends used here handles neither liveness under fairness and `ENABLED` nor RECURSIVE
operators; only JsonText uses the latter, and no module with a proof reaches it.

## 7. Where code and documentation disagree

Each is a run that TLC must find violated.

| run | the code | what is written |
|---|---|---|
| `ring_lost` | `EventReader.cpp:59` sets `lastSeq_ = head` also after leaving the loop at an uncommitted slot: that event and the later ones are skipped and not counted | `EventReader.cpp:56`, "retry next tick" |
| `tap_status` | `TapClient.cpp:331`: the reader thread ends with the pipe; status stays Subscribed, `IsConnected()` stays true, nothing reconnects while the pid is the same | `TapClient.h:22`, Subscribed is "pipe + reader thread + at least one topic" |
| `tap_panel` | `RpcTapPanel.cpp:266` and its copy in `ScriptContextPanel.cpp`: the pid is noted before the connection is known to be up; a panel drawn while the connect was refused never subscribes after the retry | `App.cpp:42`, subscriptions "re-register themselves" |
| `events_replay` | `VarWatcherPanel.cpp:360` (and `SessionHealthPanel.cpp:229`): `lastSeenSeq` and the backlog outlive the session; after an attach to an agent with smaller numbers, old events are above it and are applied in every frame | `VarWatcherPanel.cpp:30`, a varbit row "updates only when a kEventVarbitChange flows past on the event ring" |

More that were seen, and which no run is spent on. `EventReader.cpp:51-59`: an overrun
counts up to the number found in the slot and resumes there, and `lastSeq_` becomes the
older head all the same, where the reader protocol of `SharedLayout.h:960` goes on from the
number found (`lastSeq = seq = s`); when producers claim a lap while a drain runs, it counts
events beyond its head, which the next drain returns or counts again. With two slots:
the drain begins with head 1 at event 0 and finds number 2 in its slot; `dropCount()` becomes
2, and event 1, still in the ring, is returned by the next drain. (`CountedOnce` without
its premise finds this.) `TapClient.cpp:29,262`: a subscribe request is written on the UI
thread with an infinite wait, and the stop event it also waits for is set by that thread
only; an agent that does not read stops the frame loop, and nobody can press Detach. Line 16
declares `kSubscribeTimeoutMs = 1000`, which nothing uses. `InterfacePanel.cpp:1205`: only a drawn
panel rewrites `interfaceView`, and `main.cpp:344` moves the overlay to the new process
with the old one's boxes, where `App.cpp:230` has the overlay draw "the Interfaces
panel's selected iface on the live game". `DebugDrawPanel.cpp:1283`: a connection that
breaks after `TrackConnection` and is open again before the next one is lost without a
word, where the comment above says that "a panel that does not say so looks broken".
`CacheBrowser.cpp:1090`: a link clicked in the field list replaces the detail the loop is
running over. `RpcConsolePanel.cpp:242`: a list with an item that is no string is taken
as the whole list, with no name if that item is the first, and is not asked for again. `CacheLookup.cpp:84`: the shared handle is reopened and the Cache
Browser not told. `Json.cpp:137`: a high surrogate is combined with whatever escape follows. `RpcClient.cpp:234` reports a pipe that broke during a
call as a timeout, where `RpcClient.h:12` promises Disconnected; and
`Cs2Index.cpp:348` reuses an index by file count and total size, where
`CacheBrowser.cpp:1201` says "when the corpus is unchanged".

## 8. What is not modelled

* **Player and Entities panels**: they draw the snapshot of the frame and keep a filter
  and a selected row; what they can see of it is `SnapshotBuffer`.
* **Drawing in the modelled panels**: grids, icons, tooltips, column layouts, flashes,
  the timeline, the badges of the Interfaces panel, filters that only hide rows.
* **A script file that shrinks or fails while it is read**: `Cs2Index.cpp:82-84` does not look
  at how much `f.read` got; a file is read as one of its versions, or counted as unread.
* **Forms as text**: the console's parameters and the numbers typed into Debug Draw are
  parsed before anything is sent; a fault there sends nothing.
* **The memos of Cache Lookup, item icons and the CS2 script view**: lookups in an
  external DLL on the frame loop, kept per id; they are as stale after a Reopen as the
  browser's, for the same reason.
* **Of the decoders**: floats, JSON's number syntax (which takes more than JSON does), the
  flags of open interfaces, and the constants compared with the protocol document.
* **ProcessList, the mapping and its header check, GL contexts**: Win32 and GL calls
  without state of their own. Their outcomes (opened, failed, created or not) are
  choices in the modules.
* **Names, log, theme, textures**: load-once tables, one mutex round a ring, drawing.
* **Wire tests and contract scripts**: they test the decoders and compare headers.

## 9. Plan

Done: EventRing with EventFeed, TapLink, SnapshotBuffer, RpcLink with RpcCall,
InterfacePanel, EventPanels, Cs2Index and Panels, each with its proofs.

1. The abstract specification of a published snapshot and what a view of it may mix, and
   that SnapshotBuffer implements it.
2. That RpcConsole's private client is an `RpcLink` of its own: the same proofs, with its
   instance among the four of the agent.
3. The memos of the cache panels, with the handle the panels share.

The modules keep their counters and sets as CONSTANTS with named assumptions,
one action per operation and invariants as conjunctions of named parts, so that
each of these can be proved about the way the present ones are.
