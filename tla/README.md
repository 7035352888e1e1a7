# Verification of acme-lsp

TLA+ models of acme-lsp, the program that connects the acme editor to language
servers, with TLC runs that check them on small instances and TLAPS proofs
that hold for every instance. Paths are relative to `src/`; `files.go`,
`exec.go` and the other unqualified names are in `src/internal/lsp/acmelsp/`.

## The system

acme-lsp is one process. It watches acme through acme's 9P file system, runs
one language server per configured file pattern, and serves two interfaces of
its own: a JSON-RPC proxy that the command `L` uses, and a 9P file system with
one file per server.

| part | state | operations | talks to |
|---|---|---|---|
| FileManager (`files.go`) | `docStates`, `watchers`, `styleLayers` under `fm.mu`; a version and a token cache per document | didOpen, didClose, didChange, didSave, format from the event loop; watchBody and notifyDidChange per window; ResyncFiles after a restart; RefreshSemanticTokens from the server | acme, ServerSet, acme-styles |
| highlighting (`style.go`, `files.go`) | resultID and token data of a docState, a layer per window | applyStyles with retries, delta requests, applying and clearing a layer | server, acme-styles |
| server process (`exec.go`) | the command, its connection, `Server.Client` | start, restart goroutine, kill when initialisation fails | operating system, FileManager.ResyncFiles |
| server set (`exec.go`) | `ServerInfo.srv`, `workspaces` | StartForFile, StartForID, ForEach, DidChangeWorkspaceFolders | server processes |
| client handlers (`client.go`) | none of their own | diagnostics, refresh of tokens, applyEdit: run by the goroutine that reads the connection | diagnostics window, FileManager, acme |
| proxy (`proxy.go`, `internal/lsp/proxy`) | none | find the server of a file or an id and forward | server set |
| 9P service (`p9fs.go`) | a p9Session per open file: queue, latest response, `awaiting`, `closed`, `err` | open, read, write, clunk; writer, reader and JSON-RPC goroutines | server set, proxy |
| diagnostics (`diagnostics.go`) | diagnostics per URI, the window, `dead` | WriteDiagnostics, update every second or on Reload, Del | acme |
| actions and edits (`acmelsp.go`, `internal/lsp/text`) | none | CodeActionAndFormat, editWorkspace, Edit, positions to offsets and back | acme, server |
| L (`remote.go`, `cmd/L`) | none | didChange, then one request; print or edit | proxy, acme |
| assist, focus (`assist.go`, `cmd/acmefocused`, `cmd/Lone`) | last focused window and its position | poll, request, rewrite a window | acme, proxy or server |

What is hard to get right in it, and hard to test:

* The event loop, one watcher per window, one goroutine per seen change, the
  resync goroutine and the proxy's connections all send messages about the
  same documents. Only the maps are locked, not the sends (didSave,
  notifyDidChange, reopen, the proxy); versions must still be unique and
  increasing, and the newest text must win.
* acme's log is a queue: an event may be handled long after the window it
  names has changed again or gone. Names are keys, but windows can share a
  name and a tag can be edited.
* A server may exit at any moment. Its replacement knows nothing; every
  tracked file must be opened again while the event loop goes on.
* fm.mu is held while the program talks to acme and to a server, and the
  goroutine that reads a server's messages takes it too.
* Workspace folders, the first start and the restart of a server are not
  locked at all.

For each component, what makes it correct:

* FileManager: the files open in acme are the files tracked, tracked files are
  open on the server, saved text arrives, no document stays open for ever, no
  stop channel is closed twice, versions are unique and increase, a restart
  loses nothing, the event loop never stops.
* highlighting: tokens shown belong to the text shown; a result id is only
  sent to the server that gave it; no layer outlives its window.
* server process and set: one process per server at a time, a dead one is
  replaced, a new one is given the current folders.
* handlers: the reading goroutine always comes back to reading.
* 9P service: a reader gets exactly the response to its request; a read or a
  write returns; a clunk ends the session's goroutines.
* diagnostics: the window shows the last diagnostics, and neither a Reload nor
  a Del can block the collector.
* text: offset and position conversions are inverse on positions of the text,
  and an edit list has the effect of simultaneous edits.

## Modules

| module | what it is |
|---|---|
| `FileManager` | document synchronisation: acme, the FileManager's goroutines, a language server |
| `TextMirror` | what document synchronisation promises, and what another program may do to it; `FileManager` is checked, and proved, to implement it |
| `Servers` | the server set, and the start, exit, restart and initialisation of a process |
| `P9Session` | one file of the 9P service, opened for writing, from write to read |
| `TextEdits` | positions, offsets and edit lists on a window's text, with the two steps of a write to acme |
| `SemanticTokens` | the pure functions of `style.go`: token arrays, deltas, runs of a style |
| `Highlight` | the goroutines of applyStyles, their cache, a refresh, a Put, a restart |
| `Diagnostics` | the diagnostics window and the goroutines of its events |
| `Assist` | `L assist` beside another run of L on the same windows |
| `MCFileManager`, `MCHighlight` | symmetry of the instances |
| `FileManagerProofs` | `TypeCorrect`, `OpenDocumentsAreTracked`, `VersionsAreGivenOnce`, `NoChannelClosedTwice`, `NothingIsOpenedTwice`, `TrackedFilesAreReopened`, `ExactlyTheOpenFilesAreTracked`, `TrackedFilesAreWatched`, `ServerMirrorsTheFiles`, `CleanFilesAreInSync` |
| `DiagnosticsProofs` | `TypeCorrect`, `AtMostOneWindow`, `ShowsWhatIsCollected` |
| `P9SessionProofs` | `TypeCorrect`, `NoPatientPanics`, `AwaitingMatches`, `ObjectsStayInOrder`, `PatientClientsReadTheirAnswer` |
| `HighlightProofs` | `TypeCorrect`, `CachedTokensAreTheServers`, `QuietWindowsShowTheirText` |
| `AssistProofs` | `TypeCorrect`, `ClientsDoNotMisleadThemselves`, `HelpIsDue` |
| `ServersProofs` | `TypeCorrect`, `NoEndPanics`, `HandshakeComesFirst`, `NoServerTooMany`, `ServersKnowTheFolders` |
| `TextEditsProofs` | `AsksRight`, `OffsetsComeBack`, `MeantIsApplied` |
| `SemanticTokensProofs` | `DeltasAreExact`, `RunsAreOne`, `StylesAreRight` |

How they fit together. `FileManager` is the middle: its `Done` after a Put is
where `Highlight`'s `Style` starts, its sends of a text are `Highlight`'s
`SendChange`, its resync is `Highlight`'s `Reset`, `Reopen` and `Restyle`, and
what `Servers` calls a first start or a restart is its `serverUp`. `Highlight` says
of tokens only which text they belong to; `SemanticTokens` says what they are.
`FileManager.Format*` and `Assist`'s commands take an edit list and a position
as one step; `TextEdits` takes them apart. Several properties have an *excuse*: a
history variable that notes a race of which the code takes no notice, so that
the property says exactly when the promise holds. Every such race has an entry
in the list of what does not hold, below.

### FileManager

Each goroutine is a variable with a program counter and the registers that
outlive a step; an action is what happens between two points where another
goroutine can get in.

* `loop` is NewFileManager followed by Run (`boot` tells which). Its handlers
  are `DidOpen*`, `DidClose*`, `DidChange*`, `DidSave*` and `Format*`, split
  where the code locks, unlocks, reads a window, takes a version or sends.
  `Done` ends a handler: an error ends NewFileManager, and the program with
  it, and is only logged in runOnce.
* `watch[w]` is watchBody, `notify[i]` a notifyDidChange goroutine, `resync[r]`
  the goroutine that re-initialises the server after its r-th exit and then
  runs ResyncFiles, `remote` a client of the proxy.
* `mu` is `fm.mu`. It is a variable only where a step ends with the lock held
  (didOpen, didChange, format); a critical section with no such point is one
  action with the guard `mu = "free"`.
* `docStates` and `watchers` are the maps. A docState and a stop channel are
  named after the window they were made for, which is unique because acme
  does not reuse window ids; `version` and `closed` hold their contents, so a
  goroutine can still use a docState that the map has forgotten.
* `window`, `tag`, `body`, `dirty` and `alog` are acme. The user opens,
  deletes, types, Gets, Puts and edits tags at any time. A body is the number
  of the edit that wrote it.
* `server` is what the language server has read. A connection is a FIFO and
  the messages modelled here have no answer that the code looks at, so a send
  and its processing are one step. A didChange for a document that is not open
  has no effect. One with a version that is not above the last (`Receive`) is
  dropped by the strict servers that the comment at `files.go:39-42` describes,
  and taken by lenient ones, on which `cmd/L/main.go:232` relies, since the
  messages of L and of CodeActionAndFormat have no version; either may happen to
  each message. `breaches` remembers that there was one. Two fields of a document
  are history: `own`, the last text that the server took from the FileManager,
  and `late`, that its text is one of L's and that a window of the file had
  another one by the time it came.
* `serverUp` and `noticed` are the process. A send to a dead process is lost
  and may or may not return an error. The restart waits for `cmd.Wait`, which
  (standard input being a pipe and not a file) returns only after a write has
  failed; `noticed` becomes true with the first message after the exit.

Not in it: highlighting (`applyStyles`, layers, RefreshSemanticTokens: they are
`Highlight`, which in turn takes the sends of this module as one step each); what
the edits of an answer do to a text (`TextEdits`); `FileManager.DidChange`, which nothing calls; a server that cannot be started,
or exits again while it is being initialised; a restart of acme; Zerox;
overflow of the 32-bit version. The first StartForFile is taken to have
succeeded.

### Servers

`user[u]` is a goroutine that asks the set for a server: it takes the folders
and looks at `info.srv` (`Check`), starts a process if there was none (`Exec`),
initialises it, and sends. The check and the start are two steps because
nothing is locked between them, and with two users both find `info.srv` nil and
start a process each. A change of the workspace folders is one user
going through all servers (ForEach).

`object[o]` is a Server with its Client: `cmd` is what the variables `cmd` and
`p1` and the field `srv.conn` hold, `rpc` is `c.rpc`, `stub` the connection
behind `c.Server`, `restarter` the goroutine that waits for the process.
`init[p]` is a call of Client.init, by a user for the first process of an
object and by a goroutine for every other; it reads `p1`, `c.rpc` and `cmd`
when the code does, so the calls of two processes can meet in them.
`proc[p]` is a process and its pipe. What os/exec does is external, but
decides when the restarter wakes up: the standard input is a net.Pipe, so
cmd.Wait returns only after a write to the dead process (`told`) or after the
pipe has been closed. A process may exit at any step. `early` notes that one has
exited before its initialisation was over; most of what the module promises is
promised until then, and "What does not hold" says what happens afterwards.
`Silent` is a process that has exited and that nobody has written to since.

Not in it: servers that are dialled; answers to requests other than
initialize; the resync (in `FileManager`); the standard error file.

### P9Session

`newP9Session` starts a writer goroutine, a reader goroutine and a JSON-RPC
connection, joined by an unbuffered pipe. `writer`, `rpc` and `reader` are
these three; `writing` is a call of p9FS.write between two of its objects,
`reading` a call of p9Session.read; `awaiting`, `gen`, `curBuf`, `closed`,
`err`, `wch` and `lastGen` are the fields of the code, and `wchClosed` and
`panicked` are what Go does with a closed channel and a slice bound.

* A write is taken apart as in the code: the objects that are complete are
  marked and queued one by one (`WriteMark`, `WriteQueue`), the mark under the
  session's lock, the send outside it. `WriteFlush` is the 9P client that
  gives up on its call.
* The text of an object is left out but for three things the code depends on:
  whether it is complete (objects are written in halves), whether it is
  JSON-RPC (`invalid` ends the connection), and whether it is a request. A
  method the server does not know is a request like any other.
* A response has a size in units, and a read returns some of them, so that a
  client can read a response in pieces while another response replaces it.
* `client` is an assumption about the other end. A patient one is `9p rdwr`:
  one call at a time, and it reads to the end before it writes. A pipelined
  one does its calls in any order, and clunks while it writes. What the 9P
  server library does with two calls on one fid at a time is external; here it
  runs them side by side.

Not in it: walk, stat, the root's listing and a file opened for reading only,
whose reads return nothing; responses that come from `handlerFor`'s handlers,
which are the proxy's.

### TextEdits

One command on one window: `Start` sends the text (`RemoteCmd.DidChange`), then
the command asks for edits, or reads the cursor (`ReadDot`, `Position`) and asks
for completions, and applies what `Chosen` picks of the answer: `ReadBody`,
then `SetAddr` and `WriteData` for each edit, the last one first. They are two
steps because acme's addr file belongs to the window; `Poll` is another client
that sets it to the cursor, `Type` the user. `NewlineOffsets`, `LineToOffset`,
`OffsetToLine`, `Less` and `Sorted` are the functions of `line.go` and
`edit.go`; the text has runes of one and of two bytes, because `getNewlineOffsets`
counts the last line in bytes. The reference definitions are `PositionOf`,
`OffsetOf` and `Meant`, which says what a list of edits means without applying
anything in an order. `Sorted` keeps the order of edits that start together, as
sort.Sort does as long as it sorts by insertion, up to twelve elements; hence the
assumption about `MaxEdits`.

Not in it: the UTF-16 columns of the protocol, for which the code's comment
says that it counts runes instead; files without a window.

### SemanticTokens

The state is one document with the server's tokens of it, and the array that the
client holds (`data`) if it has a result id of the server (`resultID`); `answered`
is history, the array that the server gave with that id. `ApplyFull` and
`ApplyDelta` are what ApplySemanticTokens does with an answer: one without a result
id is shown and not kept, an empty one clears the layer and keeps what was there,
and a delta that leaves nothing is followed by a full request. `StyleEntries` is
buildStyleEntries in its two passes `Decode` and `Merge`; `ApplyTokenEdits`,
`BlankLinesOnly`, `ToRuneOffset` and `ParseTokenNames` are named as in the code. The
server is external: its tokens lie in one line and do not overlap (`MayBeToken`),
`Encode` is the encoding of the protocol, and `EditsBetween` gives deltas of two
edits cut anywhere. The palette lacks one type of the legend, since a token without
a style must still move the position.

### Highlight

One file from didOpen to didClose. `applier[a]` is a run of applyStyles, step by
step: `Begin`, `Read` (the body), `Ask` (the cache and the first request),
`AskFull`, `Store` (the cache), `Apply` (the layer), with its attempts; `starts` counts
those that have been started and not run. `watch` is watchBody's last text and
debounce timer, `notices` the notifyDidChange goroutines, `loop` the event loop
after a Put, `resync` ResyncFiles. `toClient` is the connection from the server:
`ReadLoop` handles one message at a time and, if it is a refresh, not before
`fm.mu` is free. `cache`, `layer` and `server.last` hold the number of the text
that an array belongs to; a delta about another array than the client's gives
`Junk`.

Not in it: more than one file, so that a refresh or a resync of the others, which
only takes longer, is left out; the times of the retries; a layer that cannot
be written.

### Diagnostics

The collector is `coll`: it collects, ticks, is asked to reload, and updates in the
steps `StillThere`, `Hijack` or `NewWin` and `Name`, then `Clear` and `Write`.
`handler[w]` and `reader[w]` are the two goroutines of a window; `reader` is
eventReader, whose ReadEvent looks at the event file (`ReadEvent`) before it
reads it (`Gete`). The deferred function of the handler is `Del`, `CloseFiles` and
`Dead`, under `dw.mu`; it uses the window that `dw` has by then, as the code does.
`Execute` is the user: acme hands the command to whoever has the event file
open, and otherwise does it. `Restart` is syscall.Exec: the goroutines and the
collected diagnostics are gone, acme's windows are not.

Not in it: what a line says, and errors of acme other than that a window is gone.

### Assist

`poll` is the goroutine notifyPosChange (`Log`, `Tick`, `SetQ0`), `rc["assist"]`
the loop of Assist (`Receive`, then `LeftRight` and `Xdata` for `auto`, then
the steps of a command), `rc["L"]` another run of L on the same windows: one that
asks for something at the cursor and edits then, if it is `comp -e` or `rn`, or
`fmt`, which edits, sends the text again and edits once more. An edit is WriteAt,
`WriteAddr` and `WriteData`. All of them set a window's one address in one step
and use it in the next; the third component of `addr` notes who has set it.
`synced` is the server's text, which either client sends as it has read it and
without a version. As in `FileManager` a server takes such a text or not: `strict`
is chosen at the start and then says which. `told` is history: the last
notification, and whether nothing has happened since that makes its help undue.
`heard` is, for each window, the last position that Assist was told, if any.

Not in it: the messages of the FileManager about the same window; the other
windows of L's output; and `Lone`, which runs the same commands on a server of
its own.

## Runs

| run | instance | shows |
|---|---|---|
| `fm_events` | 2 windows of 1 name, format on Put, 2 edits, 1 Put, 1 message of L | no document is left open for nothing, saved text arrives, a deleted window's file is closed in the end, and `FileManager` implements `TextMirror` with every sender of texts and a server that may be strict or lenient |
| `fm_watch` | highlighting, 2 windows that may share a name, 2 notification goroutines, 1 edit, 1 edited tag | no stop channel closed twice, no version given twice, no file opened twice, each tracked window has its watcher |
| `fm_restart` | 2 windows, 2 names with a server, 1 Put, 1 exit of the server | after the resync every tracked file is open, none that was closed is tracked; and the resync comes to an end |
| `srv_restart` | 2 users of 1 server, a second server that a change of 1 folder starts, up to 5 processes; 2 of exits, a refused initialisation and a failed start, at any step | requests end, but for one that a dead process has not answered; until a process exits before it is initialised, a dead server comes back, no message comes before the handshake, there are no more processes than users, folders agree, and nothing panics |
| `srv_first_exit` | 1 user, 1 server, 1 exit at any step | `SurvivesEveryExit` is violated: the program panics |
| `p9_session` | 4 objects, responses of 1 or 2 units, a channel of 1, both clients | a patient client reads exactly its answers and cannot crash the program; objects stay in order; calls return; a clunk ends all three goroutines |
| `text_edits` | every text of up to 3 runes, every answer of 1 or 2 edits (`MaxEdits`), 1 rune typed, another client | the server is asked about the cursor, and the text becomes what the edits mean, with nothing lost of what is typed |
| `tokens` | every text of up to 4 runes, up to 2 tokens of 3 types, full and delta answers with and without result ids, empty ones among them | each letter has its style, split runs are joined, the array kept under a result id is the one answered under it |
| `hl_tokens` | 2 goroutines of applyStyles, any 2 of an edit, a Put with format and a restart, a close | the cached array is the one of its result id; when nothing is left to do the layer shows the text's tokens |
| `hl_refresh` | 1 Put with format, a server that indexes | violated: a refresh is never handled, and nothing after it |
| `diag_window` | 2 files, 3 messages, a channel of 1, 2 commands, 3 windows | one window at most, it lists what was collected, what was published last is shown in the end, no goroutine waits for ever |
| `assist` | 2 windows of which 1 is served, 2 actions of the user, 1 run of L with 1 edit, a strict or a lenient server | the help shown is of the place told and of the text as it is; nobody is misled about the cursor but by the two letters of `auto` and by edits of L, and never by itself; no position is lost |

Every run but `tokens` sets `CHECK_DEADLOCK FALSE`: the program may wait for its user or its servers.

### Bounds

Handlers of `FileManager` concern one name at a time, and a second window or name
matters only as the other user of a lock, of a name, or of the rest of
ResyncFiles' list; two of each make these cases happen. The races are between
one reader of a body and one sender, so two notifications and one handler cover
the orders of sends; one or two edits tell an older text from a newer one. In
`Servers` two users are the starters that meet, and two troubles of the three
kinds make three processes of one object, or two initialisations of one Client
that overlap.
In `P9Session` the channel has room for one object instead of 16: with four
objects it is full while the writer, the connection and the write each hold
one, which is what blocks a write for ever once the session has failed. Two
units are enough to read a response in two pieces and to be past the end of a
shorter one.

`TextEdits` enumerates every text, cursor and answer: three runes are two lines and
a rest, or a blank line between two others, and two edits are in the right order,
the wrong order, or start together; the theorems are about more of both. Four runes
and two tokens in `SemanticTokens` are two tokens of one name with a blank line
between, or one without a style before another; the theorems are about any number.
In `Highlight` two goroutines overtake each other, and `MaxInAll` leaves out only a
third event. In `Diagnostics` three messages fill the channel, the collector's hand
and a read loop; two commands are enough to delete the window while it is reloaded,
and `MaxWins = MaxCommands + 1` means that a new window can always be made. In
`Assist` the two actions are a focus and one more while Assist is busy; an edit of L
that moves the cursor is a third. The cursors start at 2, where `auto` has two
letters to read, and move to 0.

### Fairness

The goroutines of the program go on when they can. In `FileManager`: weak
fairness for the watchers and the client, strong fairness for those that take
`fm.mu`, because a sync.Mutex hands itself to a waiter that has waited for a
millisecond and so starves nobody. In `P9Session` the fairness is weak and per
goroutine; a client need neither read, flush nor clunk. In `Servers` it is weak for
each user's request and for the other goroutines taken together, and a process
that is up answers initialize. In `Diagnostics` and `Assist` it is weak for each
goroutine and strong for the cases of a select, of which Go picks one at
random. In `Highlight` it is weak and per goroutine; the server answers, but need
not index. Nowhere is the user, an exit of a server, or a client's request fair,
so nothing forces an exit to be noticed: `TrackedOpensInTheEnd` and `Restarts` say
what happens once it is.

### What does not hold

The modules also state some promises that no passing run claims, because the code
does not keep them; each is violated at once with the constants named here.
Where a passing property has an excuse, it is for one of these.

* `FileManager.VersionsIncrease` with two notifications, or with `FormatOnPut`:
  a version is taken under the lock and sent outside it; and the didChange of
  CodeActionAndFormat has no version at all.
* What `cmd/L/main.go:232` says, that L's text reaches the server, holds on lenient
  servers only: a strict one drops a didChange without a version. A lenient one
  takes it whatever came before, so if the window has moved on since L read it the
  server is left with an older text until the next Get or Put: the excuse `late` of
  `CleanTextInSync`. The didChange of CodeActionAndFormat is alike, but for that
  fm.mu is held until it is sent.
* `FileManager.CleanTextInSync` and `MirrorSpec` with a restart: reopen sends the body
  that it has read, after didSave has sent a newer one. Both also with `Highlighting`
  and one notification, which sends its text when a later one has been sent; and with
  `Doubles`, `StartupGap` or `MaxRenames = 1`, where a document comes to have the text
  of another window.
* `FileManager.OpenFilesTracked` with `StartupGap` (what happens in acme between
  the list of windows and the open of the log is seen by neither) or with
  `MaxRenames = 1` and `Served = Names` (acme logs no edit of a tag, and the del
  event then carries the new name).
* `Servers.SurvivesEveryExit` (the run `srv_first_exit`): a process that exits before
  it has been initialised for the first time takes the program with it. The rest of
  what follows such an exit, all of which `early` excludes: the initialisation that
  fails because of it kills `cmd` and closes `srv.conn` as they are by then, that is
  the next process, whose initialisation then fails in turn; the user is told of the
  failure while the goroutine of the object that nobody refers to goes on to start
  processes, so that there are more than `NoMoreThanItsStarters` allows; and two
  initialisations of one Client overlap in `c.rpc`, so that `HandshakeFirst` fails.
* `Servers.RequestsEnd` without its exception: a process that exits after it has read
  `initialize` and before it has answered leaves that call, the request that waits
  for it and, if the process was a restarted one, the server hanging for ever. The
  error of the dead process would come from cmd.Wait, which waits for a write to
  it that nobody makes.
* Two users that start a server at once do start two processes, of which the set
  keeps the last, so `NoMoreThanItsStarters` bounds them by the users. A server that is
  restarted is given the folders of its first start, and a change of the folders that
  fails half way is recorded nowhere, so `FoldersAgree` excludes exits and failures.
* `P9Session.WaitsOnlyForARequest` with `"notification" \in PatientKinds`: a
  write of a notification sets `awaiting`, and a read then waits for an answer
  that nobody sends. `NoPanic`, `ReadsTheAnswer` and `AwaitingIsInFlight` are
  claimed for patient clients only: a pipelined one does make the program panic
  in this model, by keeping its offset while a shorter response comes in, or by a
  clunk that overtakes its write.
* `TextEdits.EndIsTheEnd` for a text whose last line has a rune of two bytes;
  `WriteAtReplaces` when another client of the window sets its address between
  the two steps of a write.
* `Highlight.RefreshIsHandled` with `FormatOnPut` (the run `hl_refresh`), and
  `QuietShowsTheBody` without its excuses: an applier whose answer is older may
  write the layer last (`overtaken`), and tokens may be asked for before the text has
  been sent (`late`). `CacheIsTheServers` without its excuse: an answer from before a
  restart is stored after the cache was reset (`crossed`).
* `Diagnostics`: `crashed` can be reached. CloseFiles sets the event file to nil
  while the reader of that window is between its check and its read;
  ReadEvent's recover then panics itself, because the value is no string.
  `LatestIsShown` and `EventsAreHandled` are claimed for programs that have not
  crashed.
* `Assist.CurrentAddrIsTheCursor`: readLeftRight, for `auto`, sets the window's address
  to two letters while the poll, or another L, is about to read it; and WriteAt, for
  an edit of L, does so to the poll and to Assist. The other way round, a poll or a
  CurrentAddr between the two calls of WriteAt sends the edit to the cursor.
* `Assist.PositionIsTold` without its exceptions: `pos` has 0 for a window it does not
  know, so one that is first followed with its cursor at 0 is not told until the
  cursor has been elsewhere; and the poll may meet readLeftRight again and again.
* `Assist.HelpIsOfThePlaceTold` without its exceptions: nothing is sent or asked again
  when an older text of L replaces Assist's on the server, or a strict server refuses
  Assist's, until the next notification.

## Proofs

All theorems are about `Spec` for all values of the constants, from the named
assumptions of the module (`WinsAssumption`, `NamesAssumption`,
`ConfigAssumption` and `BoundAssumption` of `FileManager`, `BoundAssumption` of
`P9Session`, `DiagnosticsAssumption`, `AssistAssumption`, `ServersAssumption`,
`HighlightAssumption`, `TextAssumption`, `TokensAssumption`), which TLC evaluates in
each run. They say no more than what kind of thing a constant is, but for the twelve
edits of `TextAssumption`; where a theorem needs more, it is a hypothesis of the theorem and
named below. Each run shows the same property on its instance.

Of `FileManager`:

* `TypeCorrect`: `TypeOK` is inductive by itself, since it also says that
  `loop.win`, `loop.doc` and the other registers are set at the program
  counters that use them. One lemma per group of actions.
* `OpenDocumentsAreTracked` (`MaxCrashes = 0`): `OpenIsTracked` is not
  inductive. The invariant adds that the lock is held exactly at the steps
  between a lookup and a send, that the name whose didOpen is about to be sent
  is tracked, and that no resync goroutine runs. With exits it does not hold:
  a reopen whose file is closed while it reads the body opens it for good.
* `VersionsAreGivenOnce` (`MaxCrashes = 0`): the property is inductive given
  `TypeOK` and that no resync runs; with exits `reset` gives versions out
  again.
* `NoChannelClosedTwice`: any constants. Whether a stop channel can be closed
  twice depends on each window being opened at most once, which in turn
  depends on the list that NewFileManager reads and the log that Run reads
  never announcing the same window: `WatchersInv` says that the windows in the
  list, in the log, being opened and already opened are disjoint, and that
  nothing in the log was born before the list.
* `TrackedFilesAreReopened` (`~Doubles`, `MaxRenames = 0`, any number of exits):
  `CoveredInv` says that while a server is up, each tracked file of a live window is
  open on it, or the event loop is about to open it, or a resync of this server has it
  in its list or has still to make the list (`WillReopen`); and `TagsInv` says what
  makes a list of (window, name) pairs enough: every name in an event, a register or
  a docState is still the one in the window's tag. That is what the two hypotheses
  are for: ResyncFiles finds the window of a file by its name, and with two windows
  of one name it may read the one that is going away, and with a tag edited since
  didOpen it finds none.
* `ExactlyTheOpenFilesAreTracked` (`~StartupGap` as well, any number of exits): the log
  is a queue, so the invariant is about its order. With `Ann` for the places where a
  window is announced, from the docStates through the handler in progress to the log's
  positions, and `Del` for those where its end is, `OrderInv` says that a live window
  is announced, that one which is gone has its deletion after its announcement, and that
  between the announcements of two windows of one name there is the deletion of the
  first. When the log is empty only the docStates are left. `BootInv` says
  the same of NewFileManager's list before the log is open. Each hypothesis is a case
  of "What does not hold", or, for `~Doubles`, two windows of which one docState can
  only name one.
* `NothingIsOpenedTwice` (`MaxCrashes = 0`, any names, renames and gap): didOpen holds
  the lock from the lookup of the docState to the send, and `OpenInv` says that what is
  open is tracked. A restart breaks it by design, since reopen sends a didOpen for a
  document that didOpen may have sent already.
* `TrackedFilesAreWatched` (`MaxCrashes = 0`): `Held` says that the entry of a tracked
  file in `watchers` is its window's, except while didOpen is on its way from the
  docState to the watcher. With an exit it fails at that very place: a didOpen that
  the dead server does not take returns an error before the watcher is started.
* `ServerMirrorsTheFiles` (`~Highlighting`, `~StartupGap`, `~Doubles`, `MaxRenames =
  0`, `MaxCrashes = 0`; formatting, messages of L and everything else as you like):
  `FileManager` implements `TextMirror`. Initial states map to initial states
  (`InitMirror`); a step that edits a body is `Edit`, a send is `Open`, `Advance` or
  `Close`, and every other one stutters (`EditSteps`, `SendSteps`, `MirrorNext`).
  Since bodies are numbered by the edit that wrote them, what has to be shown is
  that no send carries an older text than the server has. `TextsInv` says so of
  every place a text can be at: what the server took last from the FileManager is no
  newer than the body of the document's window, and the text in the loop's hand is
  between the two. `NewsFirst` says that the events of a window come after the one
  that announces it, so that an event is handled for the window that the docState
  names; this rests on the order of the log (`OrderInv`) and on each window being
  opened once (`WatchersInv`). `Silent` says that no notification runs. What the
  formatting sends has no version, but is read and sent under fm.mu, so it is no
  older either, and it makes no difference whether the server takes it. A message of
  L does: it is `Take` when L reads the window and `Intrude` when it arrives, which
  leaves `own`, the FileManager's last text, alone. That is why `own` and not the
  copy itself is what only moves forward.
* `CleanFilesAreInSync` (the same hypotheses): `SyncInv` follows a saved text. From
  the step that makes a file clean, an event of its window is in the list, in the
  log or at the loop before it reads the body; or the loop holds this very text; or
  the server has taken it, and still has it but for a late text of L. It is proved
  on top of `MirrorInv`, which gives that a message of the loop is never refused and
  that the docState an event finds is that of its window, and of `CoveredInv`, that
  what is tracked is open. Each of the five hypotheses is needed for both: TLC finds
  either property violated on the instance of `fm_events` as soon as one of them is
  dropped (with one notifier for highlighting, and a second name to rename to).

Of `Diagnostics`, for any files, capacity and bounds, with the one inductive
invariant `Inv`:

* `TypeCorrect`.
* `AtMostOneWindow`: the collector makes a window only when acme has none of
  that name, so `OneWindow` depends on a window without its name never being
  overlooked. `WindowsInv` and `MutexInv` say that only the window being made
  can be without a name, that `dw.mu` is held then and while a handler deletes,
  and that a handler that is active is the one of `dw`'s window. Without the
  last, the deferred function of an old handler would delete the new window.
* `ShowsWhatIsCollected`: `ShownInv` adds what the window lists at each step of an
  update, and that `needsUpdate` is set by whatever makes the two differ.

Of `P9Session`, for any number of objects, sizes and capacity:

* `TypeCorrect`.
* `NoPatientPanics`: a read panics if its offset is beyond a shorter response.
  The invariant `ServiceInv` counts the objects of a patient client that are
  under way, whether they are being written, queued, with the writer, the connection
  or the reader (`Load`): it is at most one, and while it is one the client's
  offset is 0. `EndsInv` ties the flags of a session that ends to each
  other, so that a write to a closed channel is excluded as well.
* `AwaitingMatches` (`"notification" \notin PatientKinds`): `AwaitedInv` gives
  one direction, `ServiceInv` the other.
* `PatientClientsReadTheirAnswer`: on the way from the write to `curBuf` an answer
  passes the writer, the connection and the reader. `CarriedInv` says that all they
  carry belongs to the last object, and `FreshInv` that the client has read nothing
  while something is under way and not seen the end of it while `awaiting` is set; so
  what it has read are the first units of the last answer, and a read that returns
  nothing was at its end.
* `ObjectsStayInOrder`, for both clients: `OrderInv` says that the objects
  with the connection, the writer and in the channel are in this order, all before
  the next to be queued.

Of `Assist`, for any windows and bounds, with the one inductive invariant `Inv`:

* `TypeCorrect`.
* `ClientsDoNotMisleadThemselves`: `AddrInv` says that an address was set by
  readLeftRight only if the argument is `auto`, by an edit only if there was one, and
  that whoever is about to read an address finds one that was set to the cursor or by
  another client.
* `HelpIsDue`: `HelpInv` says what Assist holds after each of its steps while the
  notification's help is due: the place, the kind, the
  text it has read and then the server has, the address. `WorkInv` ties its command to
  the last notification, without which none of this would be about the place
  that was told.

Of `Highlight`, for any number of appliers, attempts, edits, Puts and restarts:

* `TypeCorrect`, with `PastInv`: no array is of a text that is still to be written.
* `CachedTokensAreTheServers`: ids say nothing across a restart, since the new server
  counts from 1 again. `GivenInv` says that a result in the queue with the last id is
  the last result, and `UncrossedInv` the same of the cache and of what an applier is
  about to store there, from the reset on; before it they need only be no junk. That a
  delta is about the array of the applier that asked is a relation between a message
  and `prev`, and survives because an applier waits for one answer at a time
  (`AnswersInv`) and because nothing is asked of a server that is not open yet
  (`OpenInv`). The excuse is exactly an applier between request and store at `Reset`.
* `QuietWindowsShowTheirText`: `OpenShowsInv` says that the layer is right, or something
  is due that starts an applier, or some applier is going to make it right (`Good`: it
  has read the present text, and what it has been or will be answered are the tokens of
  that text). It needs `SyncInv` (a server whose text is not the window's is about to be
  told of it and the debounce is pending), so that an applier that asks when nothing is
  due is answered for the right text, and `IndexInv` (whoever was told of no tokens
  before the index is followed in the queue by the refresh), so that clearing the layer
  is always made good.

Of `Servers`, for any users, servers, folders and bounds on what ends, is refused
or fails:

* `TypeCorrect`, with `RefInv`: what a Server object, its initialisations, the users
  and the set refer to has been started, and belongs to the same object. This is
  what makes the other proofs possible, since a record's field is only known to be
  a process once it is known to be set.
* `NoEndPanics` and `HandshakeComesFirst`: neither is inductive, and both follow from
  `early \/ LifeInv`: until a process has exited before its initialisation was over, a
  process that is not initialised is the one its object's restarter waits for, is up
  and connected, and has `c.rpc` to itself from the moment it has made it
  (`OneInit`); the object's other processes have ended; and an object without its
  Client has only its first process, whose pipe stays open even if it is killed, so
  that cmd.Wait never returns and nobody restarts it (`NoClient`). The last is why a
  restart never meets a nil Client. The properties claim nothing after an early exit,
  and "What does not hold" says why.
* `NoServerTooMany` (finitely many users): a count is not inductive, so
  `StartersInv` says why it is bounded: there is an injection from the objects that
  may have a process to users, under which an object without a Client belongs to the
  user that initialises it and one with a Client to a user that cannot be starting
  another, because `info.srv` is set. `LifeInv` gives the one process of each object.
* `ServersKnowTheFolders`, any constants: `CalmInv` says what holds as long as requests
  do not overlap and nothing has ended: how far a change of the folders has come
  (`Told`), and that a server that is being started was given the folders that are
  still the set's. That nothing has ended is part of the property.

Of `TextEdits`, for any text, any cursor, any answer of up to twelve edits:

* `AsksRight`: `CursorInv` says that the body is the server's document until the
  answer unless something has been typed; the rest is the lemma
  `OffsetToLineIsPosition`, that the search of line.go finds the line and column
  which the server means.
* `OffsetsComeBack`: the two conversions of line.go undo each other on every text. The
  end of the text is counted in bytes, of which there are at least as many as
  runes, so the cut at the end never moves an offset of the text.
* `MeantIsApplied`: sorting is a permutation that keeps edits of one place in their
  order (`SortedIs`), and such a permutation does not change what an answer means
  (`MeantInOrder`). Sorted, the first of the edits is a replacement in what the
  others mean (`MeantFirst`), which is why applying them from the last to the first
  with the offsets that were read once is right. `AppliedInv` says so half way
  (`Halfway`): with m edits left, the text, without what has been typed, is
  what the edits after the m-th mean, and up to the end of the m-th edit it
  is still the text that was read. A rune typed below leaves both as they are
  (`OneTyped`), a write takes m to m - 1 (`OneMore`).

Of `SemanticTokens`, for documents and token sets of any size:

* `DeltasAreExact`: `DocumentInv` (the tokens lie in the text, apart from each other;
  the array is one of integers) and what an answer does (`Answers`): the array and what
  the server has answered under the result id are both left as they were, because the
  answer is empty or has no id, or both become the text's tokens. For a delta that is
  its effect: applied from the last to the first, two edits that the server cuts
  anywhere in the old array make the new one.
* `StylesAreRight` and `RunsAreOne`: `ShownInv` says of the entries of the last answer
  that they show the tokens of the text (`Shown`). Of the first pass `Decoded` says, after i
  tokens, that the entries are in order, end before the next token, and show
  exactly the letters of the first i tokens with a style; of the second `Merged` says, after i
  entries, that the runs are in order, apart, end where the i-th entry ends, and
  show the same letters as those entries. A run that is made longer covers only newlines
  beside them, which no one sees.

What recursive functions and folds compute on every input needs induction over
data. The library's induction theorems take an operator as a parameter, which the
installed provers cannot instantiate, so both modules prove induction over a *set*
of numbers instead (`Least`, `Induction`, from the well-foundedness of `<` on the
naturals), and from it that a function defined by recursion has the values its
definition says (`Recursion`). What is to be shown of a recursion is then a set of the
numbers for which it holds.

Model-checked only: the liveness properties `GoneIsClosed`, `TrackedOpensInTheEnd`,
`Restarts`, `RequestsEnd`, `ReadsReturn`, `WritesReturn`, `SessionEnds`, `LatestIsShown`,
`EventsAreHandled` and `PositionIsTold` (TLAPS has no ENABLED), and the two runs that
show a violation. Every invariant that a passing run checks, and every action property, is
also a theorem.

## Not modelled

* The proxy's forwarding (`internal/lsp/proxy/server.go`, generated from the
  interface, and `proxy.go`), which keeps no state: it finds a server and calls it.
* Configuration, flags and start-up (`config.go`, the `main.go` files), and the
  search for module roots: read once, sequentially.
* What commands of L print, links and hovers: formatting of an answer.
* `acmefocused`, which remembers the last focused id and writes it to whoever
  connects.
* Handlers of server messages that log or answer from the configuration, code
  actions that are commands, and edits of files that no window shows.
* acme itself, acme-styles, the 9P server library and the language servers are
  external: they are in the modules as the code uses them.
* Overflow of versions and ids, and a restart of acme.

What would come next: an abstract specification of `Highlight` and its refinement; a
second file in `Highlight`.
