# Verification of MyTool

TLA+ models of the concurrent and failure-prone parts of this repository, the
TLC runs that check them on small instances, and TLAPS proofs of their main
properties for every instance. The repository is a collection of small Java and
Python programs that do not call each other, apart from socket clients and
servers that meet on port 8080, and a web page with the chart library it uses;
each part below has a module of its own.

Paths are relative to the repository root. `com/tool` stands for
`src/main/java/com/tool`. The chart library, `MyTool/web/js/highcharts.js`, is
minified: its lines hold many functions each, and the modules use the names of
the functions.

## Inventory

| Part | State | Operations | What is hard | What makes it correct |
|---|---|---|---|---|
| Reactor echo server: `com/tool/server/ractor` | selector, keys with interest set and attachment, per connection a handler with `state`, `in`, `out` | select loop, `dispatch`, `Acceptor.run`, handler constructor, `run`, `read`, `isInputComplete`, `write` | a thread per event, several at once in the Acceptor and in one handler, no locks; `register` and `interestOps` against a selection in progress | no event dropped, nobody answered unasked or twice, no interest lost, who waits is served |
| NIO echo server: `com/tool/server/NIOSimpleEchoServer.java` | `messages`, keys, selected keys | the accept, read and write branches of `run` | state kept in three places over several rounds; one `try` around everything | map, keys and selected keys agree; every request answered once; what ends the server |
| wait/notify demo: `com/tool/thread/NotifyTest.java` | `lock.i`, the wait set | `createAndDispatch`, `Worker.run` | lost notifications, spurious wakeups, `lock.i = 5` without the lock | main returns exactly when all workers are done |
| Folder sync: `script/compareFilesSVN.py` | onsite folder, offshore working copy, repository | `goThroughDir`: update, walk, copy, checkin | runs cut off anywhere and run again; commits by others in between | working copy mirrors onsite; only onsite versions are committed; nothing copied stays uncommitted |
| Blocking servers and client: `com/tool/SimpleSocketServer.java`, `NewThreadSocketServer.java`, `SocketClient.java`, `server/MyBIOServer.java`, `server/SinNioTwoAcceptor.java`, `server/Server.java` | sockets, accept queue, acceptor threads | accept, read a line, answer, close | who waits for whom; a response lost to a reset; an acceptor that dies | every client gets its answer or an end of stream; a bad connection does not stop the server |
| Thread-scoped data: `com/tool/thread/ThreadScopeShareData*.java` | static `instance`, `ThreadLocal map` | `getInstance`, `setName`, `getName` | a static field written and read by all threads between the statements of one call | an undisturbed call returns the thread's own object; when a call can return null |
| Barrier and latch demos: `com/tool/thread/MainCycle.java`, `CycleSubTask.java`, `CountDownLatchTest.java` | barrier count, array, latch count | `await`, barrier action, `countDown` | who passes when; what the action sees | the sum is of all three numbers; nobody passes early; everybody passes |
| Chart, hovering: `MyTool/web/highcharts.html`, `js/highcharts.js` | `hoverPoint`, `hoverSeries`, states of points and series, the tooltip and its timers | the handlers of `Pointer`, `refresh`, `hide`, `move`, `onMouseOver`, `onMouseOut`, `setVisible`, `remove`, `setData`, `redraw`, `destroy` | several handlers per movement, in an order that depends on the movement; timers that race with later hovers; points that vanish under the mouse | what is hovered exists and is shown; no tooltip and no highlight is left behind |
| Chart, redrawing and resizing: the same files | `isDirty` of series and axes, `isDirtyBox`, `isDirtyLegend`, `forceRedraw`, extremes, `isResizing`, `reflowTimeout`, `hasUserSize` | `redraw`, `setScale`, `setVisible`, `setData`, `addPoint`, `remove`, `addSeries`, `update`, `setExtremes`, `setSize`, `reflow` | a redraw does only what the marks ask for, and changes may come without a redraw; animated resizes and the resize timer | after a redraw everything shown comes from present values; no mark is lost; the chart follows its container |
| Chart, drawing: the same files | SVG elements | renderer, ticks, labels, other series types | geometry | not modelled |
| RMI and object streams: `com/tool/server/rpc` | registry, stream | `rebind`, `lookup`, `available`/`readObject` | arrival of bytes against `available()`; which failure ends which side | an object sent is read |
| Pure functions: `com/tool/StringToHex.java`, `script/BubbleSort.py`, `script/urltest.py` | none, or a nesting level | conversion, sort, parse | odd lengths, last elements, unmatched tags | round trip, sortedness, level never negative |
| The rest: `App`, `PerformanceTest`, `RunnableStartTest`, `TestFinal`, `Immutable`, `ThreeStooges`, `ssl`, `pattern/decorator`, `snmp`, `script/webRobt.py`, `myserver.py`, `mutipyThreadGetUrl.py` | little or none | printing, timing, one request | nothing concurrent or failing that the code handles | not modelled: sequential I/O or commented out |

The rows down to the redrawing of the chart are modelled, all but
`server/Server.java`. They do not share state, except that `SocketClient` meets
one of the servers on port 8080: `AnswerServers` composes it with each of the
three that answer without being asked for a line, and in `LineServer` it is the
peer whose request has no line end. The reactor and the NIO echo server promise
their clients the same thing, and so do the barrier and the latch, which is why
each pair shares an abstract specification. The two halves of the chart meet in
`redraw`, which ends with a reset of the pointer: `ChartHover` has this end, with
the places of the points changed or not, and `ChartRedraw` all that comes before.

## Modules

| Module | Models |
|---|---|
| `OneShot` | abstract: a connection asks, is answered afterwards, and at most once |
| `Reactor` | the reactor server and its handlers, statement by statement |
| `NioEcho` | the single-threaded NIO server, one action per selected key |
| `Notify` | `NotifyTest`: main loop and workers |
| `SvnSync` | `goThroughDir` and the people at both ends |
| `SocketClient` | `ClientWorker.run` and the TCP connection it has to a server |
| `AnswerServers` | extends `SocketClient` by `SimpleSocketServer`, `MyBIOServer` and `SinNioTwoAcceptor` |
| `LineServer` | `NewThreadSocketServer` and any peers |
| `ShareData` | `ThreadScopeShareData` and `ThreadScopeShareData2` |
| `Rendezvous` | abstract: nobody passes before everybody has arrived |
| `Gates` | `MainCycle` with `CycleSubTask`, and `CountDownLatchTest` |
| `ChartHover` | the mouse over a chart: pointer, hovered point, tooltip |
| `ChartRedraw` | the marks of a chart, its redraw and its size |
| `MC*` | the instances TLC checks |
| `ThreadProofs` | theorems about `Notify`, `ShareData` and `Gates` |
| other `*Proofs` | theorems about the module they extend |

`ThreadProofs` extends the three modules of `com/tool/thread` at once, so the
definitions that every module has carry a prefix there: `NotifyInit`,
`ShareNext`, `GatesSpec`. The constants and variables of the three have nothing
in common.

Each specification has "faulty variants" in front of some definitions: the same
operation with a plausible mistake. No specification uses them; replacing a
definition by its variant must make a property fail, which shows that the
property depends on that piece of code.

### Reactor

The main server thread (`server`) enters a selection (`SelectEnter`), returns
from it (`SelectReturn`), dispatches the selected keys one at a time
(`Dispatch`) and clears the set (`RoundEnd`). A dispatched key takes a slot of
`Threads`; `pc[t]` names the statement thread t is at, `job[t]` its key. The
Acceptor's steps are `Accept` and the four statements of the handler's
constructor, `Register`, `Attach`, `InterestRead`, `Wakeup`. The handler's are
`Run` (the branch on `state`), `Read`, `InputComplete` (the second read),
`SetSending`, `InterestWrite`, `ClearIn` and `Write`.

The selector is not in the repository. The model has what the code relies on:
a selection looks at the interest sets of the moment it was entered, `wakeup`
ends the current or the next selection, and `register` waits for a selection in
progress (Java up to 10, the pom targets 1.7) or does not (since 11); the
constant `RegisterBlocks` chooses. Bytes are counted in units of which `in`
holds `InCap`. A read that finds `in` full returns 0 and does not look at the
socket, not even after a reset (`ReadThrows`).

`state` and the position of `in` are accessed without a lock. Reading a stale
`state` is the same as having read it earlier, which the model allows;
`ClearIn` may lose its effect to a read in progress.

### NioEcho

`Select` records the ready operations; `HandleAccept`, `HandleRead` and
`HandleWrite` each take one key out of the selected set and run its branch;
`IterationEnd` goes back to the selection. Only the peers run beside the server
and a branch makes one call whose outcome they decide, so a branch is one
action. The keys' attachments and the round counter are only printed and are
left out. `server = "down"` is the end of `run` by an exception: reading from or
writing to a reset connection, or `accept` returning null.

### Notify

`ResetCount` and `StartWorker` are the two halves of a turn of the creation
loop, `Check` and `NotifyAll` those of the other loop. A worker enters the wait
set (`Wait`), is woken by `NotifyAll` or `WakeSpuriously`, and decrements in two
steps (`Read`, `Decrement`), between which main may overwrite `lock.i` because
it takes no lock to do so.

### SvnSync

A file's content is the onsite edit it comes from or one of the contents
`Offshore`, `Merged`, `Torn`, `None`. `stamp` stands for the modification time
and size that the script compares: two onsite versions never have the same one.
`CompareAndCopy` is one turn of the inner loop, `TearCopy` a `copy2` that does
not get to the end, `CutOff` any other end of a run in the middle, `Checkin` the
commit or its refusal. A missing directory, where `copy2` raises an exception,
is one of the ways a run is cut off.

### SocketClient and AnswerServers

`client[c]` is the next statement of a `ClientWorker`: connect, send, the two
reads of its loop, and the end. `Connect` queues a connection if the server
listens and the queue has room. TCP is what both sides rely on: an answer
arrives in any portions (`ReadBuffer`), closing a socket with unread data resets
the connection, and a reset arrives later and may or may not discard what was
not yet read. `Kill` cuts a client off at any time, by an end of stream or by a
reset.

`program` chooses the server for the whole behaviour. `thread[t]` is the next
statement of a server thread, `sc[t]` its connection. The programs differ in
what they do between accept and close, in what an exception ends, and in the
number of threads: `Simple*`, `Bio*` and `Nio*` are their actions,
`BioGoesDown` and `NioEnds` the ends by an exception.

### LineServer

A peer's text is a sequence of pieces, complete lines or a rest without a line
end. The handler's `Scanner` reads ahead (`Fill`): `buffered` counts the pieces
it has, `lines` those `nextLine` has returned. `NextLine` is a turn of the loop
up to the echo, `Write` the echo, `Close` the finally block, which resets the
connection when pieces have arrived that the Scanner has not read.

### ShareData

`GetFromMap`, `TestNull`, `Create`, `SetMap` and `Return` are the statements of
`getInstance`; `SetName`, `SetAge`, `PrintInstance` and `GetName` are what the
threads do with the result, in the order of `Script`. The reads of the static
field race with the writes of the other threads. Java allows each of them to
return the thread's own last write or any later write of another thread, in any
order, so `visible[t]` is the set of values a read may return, and a read takes
any of them.

### Gates

`demo` chooses the program. In `MainCycle` a task stores its number (`Store`),
arrives (`Await`), and waits; the last to arrive runs the barrier action, one
element of the array per step (`Add`), and lets the others go (`Trip`, `Wake`).
In `CountDownLatchTest` a task counts down and is done, and main and the
`WaitTask` wait (`PassLatch`). The count that a task prints afterwards is left
out. Both programs repeat one number in several places, the loop bound and the
gate's count; `N` is that number.

### ChartHover

The chart is that of the page: a line chart over categories, one tooltip for one
point, a legend. A movement of the mouse makes the browser call handlers of the
element left, the container, the element entered, the container again and the
document, one after the other without a timer in between: `MouseMoves` is one
action that composes the handlers in this order. Each handler is an operator on
the record `ui`, the state of the hovering, and calls others as the code does
(`PointOver` calls `PointOut` and `Refresh`, which calls `Move`). `HideTimer`,
`FadeEnds` and `MoveTimer` are the delayed parts of the tooltip. `SetVisible`,
`RemovePoint`, `SetData`, `Redraw` and `Destroy` are what the program does under
the mouse; each change ends in `Finish`, a redraw or, with `redraw = false`, none.
`points` are the Point objects that are not destroyed, `tracked` what the arrays
`tooltipPoints` still hold.

Positions are the columns of the categories. Where the tooltip is to go is named
by the point; how many steps it glides, and whether a redraw moves the points,
are choices. `leftover` records that a refresh found the tooltip in its place and
left a pending step for another place, since `move` clears the pending step only
to schedule its own.

### ChartRedraw

The methods that redraw call each other, so they are operators from the state `c`
of the chart to the next one. `Redrawn` is `redraw` in its order: `RenderLegend`,
`Scaled`, `GetMargins`, `DrawFrame`, `DrawSeries`. `NeedsScale` has the reasons
for which `setScale` does anything. What is drawn is recorded as the values it
was drawn from: `picture` for the series, `axisPicture` for the axes, `plot` for
the margins. The changes (`SetVisible`, `UpdatePoints` and `SetData` for the two
ways of `setData`, `AddPoint`, `RemovePoint`, `AddSeries`, `RemoveSeries`,
`UpdateSeries`, `SetExtremes`, `UpdateAxis`) set the marks the code sets and end
in `Finish`. `SetSize`, `EndResize`, `ResizeWindow`, `Reflow` and `ReflowTimer`
are the size.

Of an axis only the maximum is modelled, and minima, ticks and padding are left
out. `axis.len` is represented by `stretch`, the axes whose length the next
`setAxisSize` will change. `owed`, `missed` and `overtaken` are history: changes
not drawn yet, axes a redraw did not scale because of an animated resize, and a
resize event ignored while a timer with another size was pending. `undrawn` is
history too: the series whose values were added to or replaced since they were
drawn last, hidden ones included, which is when their Point objects are not those
of the data. An equal-length `setData` updates these objects one by one and marks
the series and nothing else: `Point.update` would mark the box for a series with
`hasCartesianSeries`, which only the chart has.

## Runs

| Run | Instance | Shows |
|---|---|---|
| `reactor_handler` | 1 client, 3 threads, buffer of 2, up to 3 units, `register` does not wait | `NoUnaskedReply`, `ImplementsOneShot`, `AnsweredUnlessStale`, `ClosedIsAnswered` |
| `reactor_register` | 2 clients, 2 threads, buffer of 1, 1 unit each, `register` waits | `SelectedHasHandler`, `WatchedUnlessWaiting` |
| `nio_echo` | 2 clients, buffer of 2, up to 3 units each | all properties of `NioEcho` |
| `answer_servers` | 2 clients, 2 threads, answers of 3 units, 1 queued; each of the three programs | all properties of `AnswerServers` |
| `line_server` | 2 peers, 4 texts | all properties of `LineServer` |
| `share_data` | 2 threads, symmetric | all properties of `ShareData` |
| `gates` | 4 tasks, numbers 1 and 2; both programs | all properties of `Gates` |
| `notify` | 3 workers, spurious wakeups | all properties of `Notify` |
| `svn_sync` | 2 versioned files, 1 new file, 1 onsite edit each | all properties of `SvnSync` but the docstring's |
| `svn_rerun` | 2 versioned files | violated: the docstring, after a run that was cut off |
| `chart_hover` | 2 series, one with `stickyTracking`, 2 columns, points of one series change, glides of at most 1 step | all properties of `ChartHover` |
| `chart_redraw` | 2 series, data of 7 or 8 points, 2 sizes, 1 animated resize at a time, 1 change in a row without a redraw; symmetric | all properties of `ChartRedraw` |

"All properties" are those of the module's last section without the ones that are
proved and left to the proofs (named under Proofs).

Bounds. A buffer smaller than the request makes every reading see a full
buffer, a partial and an empty one. Two threads in the Acceptor make it lose an
`accept`; three in one handler let one read, one find the queue empty and one
come in for the other state. Two clients make selected keys compete; the
handlers of different connections share nothing but the selector. In `SvnSync`
one edit distinguishes what was copied before from what is onsite now, and two
files make a walk stop in between. In `AnswerServers` an answer of three units
comes in a first byte, a part and a rest; with two clients one can be reset
while the other is queued, and two resets cost the NIO server both its threads.
The texts of `LineServer` are a request without a line end, lines with and
without a last line end, and talk after the bye. Two threads show every race of
`ShareData` in pairs; the proofs cover any number. In `ChartHover` two series are
one to leave and one to enter, of both kinds of tracking, and two columns give a
series a point to keep and one to lose; one step of a glide is a step that can be
pending. In `ChartRedraw` the eighth point is beyond a window of six columns, so
that the extremes of y depend on those of x, and it may or may not be the
highest; seven points or more keep the range of x above `minRange`. A change
without a redraw followed by one with a redraw is the shortest case of marks that
must last. `addPoint` adds at the next category and `Point.remove` removes the
last drawn point. All proofs are without these bounds.

Liveness properties of the reactor were also checked once with two clients and
two threads where `register` does not wait; the configuration kept is the one
with three threads in one handler.

Deadlock is not checked where the system may stop: the servers may sleep in
`select` when no peer does anything, `NotifyTest` ends, a destroyed chart does
nothing. `SvnSync` and `ChartRedraw` check it.

Fairness. `Reactor`: the main thread and each started thread are scheduled
(weak fairness of each); the peers owe nothing. `NioEcho`: the one server thread
is scheduled. `Notify`: main and each worker are scheduled; weak fairness is
enough for the monitor because a worker is only refused while another
decrements, which each does once. `AnswerServers`: the server's threads are
scheduled; that clients are scheduled and resets arrive is a hypothesis of
`ClientsEnd` only. `LineServer`: the
accepting thread and each handler are scheduled, the peers owe nothing.
`Gates`: every thread is scheduled. `ChartHover`: timers fire and animations end,
which the browser sees to; the mouse and the program owe nothing, and that they
leave the chart alone is a hypothesis of `LeavingHides`. `SvnSync`, `ShareData`
and `ChartRedraw` have no liveness property: the program need never redraw.

What the runs found:

- `dispatch` (`com/tool/server/ractor/ReactorSingleEchoServer.java:84`) starts a
  thread per event, although the class calls itself a single-thread reactor. The
  safety properties hold all the same, for any number of threads.
- A reply can be missed: `interestOps(OP_WRITE)` in a handler thread does not
  wake the main thread, which may already sleep with the old interest.
  `AnsweredUnlessStale` says this is the only way, `ClosedIsAnswered` that a
  peer that closes its side gets its reply.
- Where `register` waits for the selection, the Acceptor's thread can stay in it
  for ever. Either it waits for a selection that nothing ends, since `wakeup`
  comes after it, or another connection keeps the main thread selecting and the
  thread never gets the selector's monitor, which is not fair; the second way
  needs two clients. `WatchedUnlessWaiting` says that a wait in `register` is the
  only way a pending connection is not served.
- `NotifyTest` fails to end only if a worker is woken while others are still
  being started.
- `SocketClient` and `NewThreadSocketServer` wait for each other: the request has
  no line end, so the handler stays in `hasNextLine`, and the client reads to the
  end of the stream. `EchoesAreDue` says that such a request is not answered
  while its sender waits.
- A client that resets its connection at the wrong moment ends `MyBIOServer`, and
  one thread of `SinNioTwoAcceptor`; with both gone that server listens and
  accepts nobody. `ClientsEnd` makes a last acceptor that is gone the only excuse
  for a client that waits for ever. Clients of the two servers that do not read can get a reset in place of
  an answer, but never a part of one that looks complete (`WholeAnswer`).
- `SinNioTwoAcceptor` sends the 1020 zero bytes behind the text it put into its
  buffer, not the text (`com/tool/server/SinNioTwoAcceptor.java:50`). No property
  is about the content of an answer.
- `getInstance` can return null or another thread's object. `UndisturbedReturnsOwn`,
  `ScopedUnlessRaced` and `SettledForGood` say when it does not.
- `compareFilesSVN.py` does not commit what an interrupted run has copied.
- A chart that is redrawn faster than `hideDelay` after the mouse has left keeps
  its tooltip, because every redraw starts the hide timer anew. A pending step of
  the tooltip may move it away from a point it already rests at. A point removed
  without a redraw stays in `tooltipPoints`, and hovering it ends the handler with
  an exception.
- A redraw during an animated resize scales no axis and uses the marks up; the
  axes stay as they were until something asks for them again.
- `setData` compares with the points drawn last. After an `addPoint` without a
  redraw it keeps the added value; on a hidden series a second `setData` may find
  destroyed points and throw. `PointsAreLive` says when this can happen, to hidden
  series and between redraws too: only to a series with values that were added or
  replaced since it was drawn, whose points are then all destroyed or the first
  ones of its data.
- A window resize that is ignored for a size of the program's own does not stop a
  pending timer, which then sets the size of an earlier resize.

No doc, comment or test of the repository says otherwise of the charts, so these
are exceptions the properties state (`leftover`, `missed`, `overtaken`) and not
findings.

## Proofs

For every set of clients, threads, workers and files, every number of tasks,
every capacity, every finite set of series with any data and any sizes:

| Module | Theorems | Argument |
|---|---|---|
| `ReactorProofs` | `TypeCorrect` | needs that a thread past `accept` works on a connection and that no more is unread than was sent |
| | `SelectedKeysHaveHandlers` | `AttachInv`: a key has an interest, current or polled, only after its attachment |
| | `NoReplyUnasked` | `HeardInv`: a selected key's peer has asked; a thread past its first read works for a peer that was heard, since that read finds data, or an empty queue because somebody else took the data, or a full buffer |
| | `WriteInterestIsKept` | `BuildInv`, `InterestInv`: one Acceptor thread builds a connection's handler and no handler thread runs before it has set OP_READ; OP_READ with SENDING means a thread is about to set OP_WRITE |
| | `ReactorRefines` | a step makes at most one peer heard (an Ask) or drains one `out` (an Answer) |
| `NioEchoProofs` | `TypeCorrect`, `MapMatchesKeys`, `KeysAreFresh`, `OnlyResetsEnd`, `LeaksAreSilent`, `NioRefines` | one inductive invariant: what was taken from a connection follows from the state of its key while the server runs |
| `ThreadProofs`: `Notify` | `NotifyTypeCorrect`, `CountCovers`, `NobodyIsLeft` | a value read in the monitor covers the workers that are not done until it is written back, even if main overwrites `lock.i` meanwhile |
| `SvnSyncProofs` | `TypeCorrect`, `WalkMirrors`, `CommitsAreOnsite`, `OnlyCutOffsHide` | a stamp that is an edit tells the truth about the content; without a cut-off run the working copy is clean between runs |
| `ThreadProofs`: `ShareData` | `ShareTypeCorrect`, `UndisturbedIsRight`, `ScopedWithoutRaces`, `SettlesForGood` | at each statement of a call the values it may see include what it read from the map or wrote last, so a value that is the only one is its own entry; without races an entry is an object of its own thread |
| `ChartHoverProofs` | `HoverInvariant` | `HoverInv`: the state of the hovering is `Sound`, with the points that exist and the visible series, and `LitBy` the legend item under the mouse. Soundness is stated of a state and not of the variables, so that each handler has a lemma of its own and an action follows from the handlers it calls; it must say that a hovered point keeps the tooltip unhidden and its hide timer off, or a timer could undo a later hover |
| | `HoverTypeCorrect`, `HoveredPointIsShown`, `HighlightsAreOwned`, `DestroyedIsQuiet` | parts of `HoverInv` |
| | `TooltipIsOwned` | `OwnInv`: a tooltip is `Quiet` (hidden or about to hide), or `Held` by a hovered series and the bound handler of the document while the mouse is in the plot, or a redraw is owed and the mouse in the chart. The last case is needed: a sticky series hidden without a redraw is left without its tooltip being hidden |
| | `TooltipRests` | `RestInv`: the tooltip of a hovered point is at the point's place or on its way there, and a pending step leads there unless the last refresh left another one. It is a predicate of the state `ui`, with a lemma for each handler |
| | `EnteringShows` | an action property, from `HoverInv` and the lemmas about `SeriesOver` and `Refresh` |
| `ChartRedrawProofs` | `RedrawInvariant` | `DrawInv`: each value shown is either what present values give or there is a mark that makes the next redraw renew it (`Base`, `Scales`, `Drawings`), and with no change owed the first is the case (`Fresh`). It has to cover states amid a redraw, where axes are scaled but margins are old, so each stage of `redraw` has its lemma. `Lively`: every series, drawn or hidden, has the points of its data or is among the `undrawn`, which are marked. `Follow`: a timer sets the size recorded last, and a size that is not recorded was overtaken or is the program's own |
| | `RedrawTypeCorrect`, `RedrawnChartIsCurrent`, `MarksAreEnough`, `DrawnPointsAreLive`, `ChartFollowsContainer` | `RedrawnChartIsCurrent` and `MarksAreEnough` are `Fresh` of the chart and of a chart redrawn once more |
| `ThreadProofs`: `Gates` | `GatesTypeCorrect`, `GatesRefine` | until the gate is passed its count is the number of tasks that have not arrived; so a count of zero means that all have, and the one task in the barrier action finds all the others waiting |
| | `TotalIsComplete` | `SumInv`: a task past its store has its number in its own element, the action has the sum of the elements it has read, and nobody stores while it reads |
| | `NobodyIsStuck` | `AliveInv`: only main starts threads and it starts all, a barrier that waits for nobody has its action running, and one that was passed has let everybody go. This is the safety half of `EverybodyPasses`, for any number of tasks |
| `LineServerProofs` | `Invariance`, `TypeCorrect`, `OnlyDueEchoes`, `EndedEchoed` | one inductive invariant: a connection waits once and has no handler before; a handler is one echo behind what it has taken exactly while it has a line to write or after a bye or a failed write; it takes no rest before the end of the stream and echoes nothing behind a bye |
| `AnswerServersProofs` | `Invariance`, `TypeCorrect`, `AnswersAreWhole` | one inductive invariant: a thread at work has a connection for itself, to which nothing was written before its write and a whole answer afterwards (`ThreadInv`); a client sees neither reset nor end of stream before its connection is closed, and an end of stream only behind a whole answer, unless it is gone (`ClientInv`) |

The type invariants of all these modules, and `WriteInterestKept`, `NoStaleKey`,
`NobodyLeftWaiting` and `CommitsOnlyOnsite`, are proved and not checked again by
the runs. The maximum of a finite set of numbers is proved to exist
(`GreatestExists`) by well-founded induction on its subsets, since the library's
`Max` is a CHOOSE.

The assumptions are the named ones of each module (`ReactorAssumption`, ...);
TLC evaluates them in every run.

`TotalIsOfAll` speaks of a sum over a set, which the library defines by a
recursive function over the set's subsets, in an order that a CHOOSE picks. What
the proof needs of it is that one element more adds its number (`SumOfMore`).
This is proved without induction over data: a well-founded least subset shows
that the sum of a finite set is the number of pairs of an element and a number
up to its value (`SumIsCount`), and that number does not depend on an order.

With these every invariant and every action property that a run checks is proved,
and so are the three refinements. Only model-checked are the liveness properties,
which need fairness and ENABLED, and these the prover does not handle:
`AnsweredUnlessStale`, `ClosedIsAnswered`, `WatchedUnlessWaiting`,
`RequestAnswered`, `EndsUnlessEarlyWakeup`, `EveryWorkerEnds`, `ClientsEnd`,
`HandlersEnd`, `EverybodyPasses` and `LeavingHides`.

## Not modelled

- The chart's renderer, ticks, labels and series types other than lines:
  geometry. Zoom, touch, shared tooltips and export are not used by the page.
- Single cases: the mouse on the tooltip itself; a hovered
  point outside of a cropped or zoomed plot; a socket write that waits because the
  peer does not read; an `accept` that throws for want of resources, which would
  end `NIOSimpleEchoServer` as any exception does; a run of the sync cut off
  within `client.update`, and conflicts that somebody resolves.
- The last row of the inventory: sequential I/O, printing, timing, code that
  is commented out.
- `Server.java`, the RMI programs and the pure functions are small and left to the
  plan; the services of the JVM, TCP, the browser and Subversion are modelled only
  as the code uses them.

## Plan

1. Done: all modules above; proofs of all their invariants, action properties
   and refinements.
2. The safety half of more liveness properties as theorems, as `NobodyIsStuck` is
   for `Gates`: that a program which is not done has a thread whose guard holds,
   for the servers of `AnswerServers`; and that `OneShot` and `Rendezvous`
   themselves have the properties they are named for.
3. A finer `ChartRedraw`: minima of the axes, and a second y axis.
4. `ObjectStream`: `HandleJavaObjectServer` with `SendJavaObjectClient`, the loop
   on `available()` against the arrival of the object; the loop of `Server.java`.
5. `HexCodec`, `BubbleSort`, `TitleParser`: operators checked against reference
   definitions over bounded inputs in one run.

The runs are kept few: a new module takes the place of a run that another can
absorb, as the reactor's two-client runs were merged.
